--------------------------- MODULE Spec2Model ---------------------------
(***************************************************************************)
(* A model of the horizon-platform ingestion core: the recency and domain  *)
(* filters, the per-source column mappers and row normalizers, the         *)
(* streaming readers, and the skill extractors.                            *)
(*                                                                         *)
(* Conventions.  Python strings are TLA+ strings (TLC evaluates Len, \o,   *)
(* SubSeq, Head and Tail on them).  An Optional value is a record          *)
(* [some, v]: None is [some |-> FALSE, ...].  A calendar date is its       *)
(* proleptic Gregorian ordinal (date.toordinal()).                         *)
(***************************************************************************)
EXTENDS Integers, Sequences, FiniteSets, TLC

VARIABLES
    now,          \* the wall-clock UTC date (ordinal); advances while the process runs
    importedAt,   \* history: the wall-clock date at which ingestion.config was imported
    CUTOFF_DATE,  \* config.CUTOFF_DATE, the module-level global
    call,         \* the call of a pure function: its operation, arguments and result
    source,       \* the streaming reader that runs: its source
    columns,      \* the header of the source (CSV columns, dataset fields)
    dataset,      \* the records of the source, in order
    batch_size,   \* the reader's batch_size argument
    col_map,      \* the reader's local col_map (None until the first chunk)
    pos,          \* the number of records the reader's loop has consumed
    batch,        \* the reader's local batch
    yielded,      \* the batches the generator has yielded so far
    traces,       \* history: per consumed record, the steps _row_to_canonical performed
    origin,       \* history: per appended row, the position of its input record
    pc            \* where the generator stands: "start", "loop", "done"

clockVars == <<now, importedAt, CUTOFF_DATE>>
readerVars == <<source, columns, dataset, batch_size, col_map, pos, batch, yielded,
                traces, origin, pc>>
vars == <<now, importedAt, CUTOFF_DATE, call, source, columns, dataset, batch_size,
          col_map, pos, batch, yielded, traces, origin, pc>>

-----------------------------------------------------------------------------
(* Optional values *)

NoneStr == [some |-> FALSE, v |-> ""]
SomeStr(s) == [some |-> TRUE, v |-> s]
NoneDate == [some |-> FALSE, v |-> 0]
SomeDate(d) == [some |-> TRUE, v |-> d]
NoneList == [some |-> FALSE, v |-> <<>>]
SomeList(l) == [some |-> TRUE, v |-> l]

\* Python truthiness of an Optional[str]: neither None nor "".
TruthyStr(x) == x.some /\ x.v # ""
\* Python truthiness of an Optional[list]: neither None nor [].
TruthyList(x) == x.some /\ x.v # <<>>

-----------------------------------------------------------------------------
(* Python str operations *)

Char(s, i) == SubSeq(s, i, i)

WHITESPACE == {" ", "\t", "\n", "\r"}

UPPERCASE == "ABCDEFGHIJKLMNOPQRSTUVWXYZ"
LOWERCASE == "abcdefghijklmnopqrstuvwxyz"
DIGITS == "0123456789"

UpperSet == {Char(UPPERCASE, i) : i \in 1..26}
LowerSet == {Char(LOWERCASE, i) : i \in 1..26}
DigitSet == {Char(DIGITS, i) : i \in 1..10}

lower_char(c) ==
    IF c \in UpperSet
    THEN Char(LOWERCASE, CHOOSE i \in 1..26 : Char(UPPERCASE, i) = c)
    ELSE c

upper_char(c) ==
    IF c \in LowerSet
    THEN Char(UPPERCASE, CHOOSE i \in 1..26 : Char(LOWERCASE, i) = c)
    ELSE c

\* s.lower(), character by character (by halves, to keep the evaluation shallow)
RECURSIVE lower(_)
lower(s) ==
    IF Len(s) <= 1 THEN lower_char(s)
    ELSE LET h == Len(s) \div 2
         IN  lower(SubSeq(s, 1, h)) \o lower(SubSeq(s, h + 1, Len(s)))

RECURSIVE lstrip(_)
lstrip(s) ==
    IF s = "" THEN ""
    ELSE IF Head(s) \in WHITESPACE THEN lstrip(Tail(s)) ELSE s

RECURSIVE rstrip(_)
rstrip(s) ==
    IF s = "" THEN ""
    ELSE IF Char(s, Len(s)) \in WHITESPACE THEN rstrip(SubSeq(s, 1, Len(s) - 1)) ELSE s

strip(s) == rstrip(lstrip(s))

\* sub in s
contains(sub, s) ==
    \E i \in 0..(Len(s) - Len(sub)) : SubSeq(s, i + 1, i + Len(sub)) = sub

startswith(s, prefix) ==
    Len(s) >= Len(prefix) /\ SubSeq(s, 1, Len(prefix)) = prefix

\* sep.join(parts)
RECURSIVE join(_, _)
join(sep, parts) ==
    IF parts = <<>> THEN ""
    ELSE IF Len(parts) = 1 THEN parts[1]
    ELSE parts[1] \o sep \o join(sep, Tail(parts))

\* s.replace(old, new) for a one-character old
RECURSIVE replace_char(_, _, _)
replace_char(s, old, new) ==
    IF s = "" THEN ""
    ELSE (IF Head(s) = old THEN new ELSE Head(s)) \o replace_char(Tail(s), old, new)

\* s.split(sep) for a one-character sep
RECURSIVE split(_, _)
split(s, sep) ==
    IF ~contains(sep, s) THEN <<s>>
    ELSE LET q == CHOOSE q \in 1..Len(s) :
                      Char(s, q) = sep /\ \A h \in 1..(q - 1) : Char(s, h) # sep
         IN  <<SubSeq(s, 1, q - 1)>> \o split(SubSeq(s, q + 1, Len(s)), sep)

all_digits(s) == s # "" /\ \A i \in 1..Len(s) : Char(s, i) \in DigitSet

digit_value(c) == CHOOSE n \in 0..9 : Char(DIGITS, n + 1) = c

\* int(s) for a string of decimal digits
RECURSIVE int_of(_)
int_of(s) ==
    IF s = "" THEN 0
    ELSE 10 * int_of(SubSeq(s, 1, Len(s) - 1)) + digit_value(Char(s, Len(s)))

\* str(n) for a natural number
RECURSIVE str_of_nat(_)
str_of_nat(n) ==
    IF n < 10 THEN Char(DIGITS, n + 1)
    ELSE str_of_nat(n \div 10) \o Char(DIGITS, (n % 10) + 1)

\* "%0<width>d" % n
RECURSIVE zero_fill(_, _)
zero_fill(t, width) == IF Len(t) >= width THEN t ELSE zero_fill("0" \o t, width)

\* "%0<width>d" % n
zero_pad(n, width) == zero_fill(str_of_nat(n), width)

-----------------------------------------------------------------------------
(* Python datetime.date arithmetic on ordinals *)

IsLeap(y) == y % 4 = 0 /\ (y % 100 # 0 \/ y % 400 = 0)

DaysInMonth(y, m) ==
    IF m = 2 THEN (IF IsLeap(y) THEN 29 ELSE 28)
    ELSE IF m \in {4, 6, 9, 11} THEN 30 ELSE 31

DaysBeforeYear(y) ==
    LET p == y - 1 IN p * 365 + (p \div 4) - (p \div 100) + (p \div 400)

RECURSIVE DaysBeforeMonth(_, _)
DaysBeforeMonth(y, m) ==
    IF m = 1 THEN 0 ELSE DaysBeforeMonth(y, m - 1) + DaysInMonth(y, m - 1)

\* date(y, m, d).toordinal()
Ordinal(y, m, d) == DaysBeforeYear(y) + DaysBeforeMonth(y, m) + d

\* date.fromordinal(n) as <<y, m, d>>
FromOrdinal(n) ==
    LET y == CHOOSE yy \in (n \div 366)..((n \div 365) + 1) :
                 DaysBeforeYear(yy) < n /\ n <= DaysBeforeYear(yy + 1)
        r == n - DaysBeforeYear(y)
        m == CHOOSE mm \in 1..12 :
                 DaysBeforeMonth(y, mm) < r /\ r <= DaysBeforeMonth(y, mm) + DaysInMonth(y, mm)
    IN  <<y, m, r - DaysBeforeMonth(y, m)>>

\* date.isoformat(): YYYY-MM-DD
isoformat(n) ==
    LET ymd == FromOrdinal(n)
    IN  zero_pad(ymd[1], 4) \o "-" \o zero_pad(ymd[2], 2) \o "-" \o zero_pad(ymd[3], 2)

\* HH:MM:SS of a second of the day
isoformat_time(sec) ==
    zero_pad(sec \div 3600, 2) \o ":" \o zero_pad((sec \div 60) % 60, 2)
        \o ":" \o zero_pad(sec % 60, 2)

\* a UTC offset +HH:MM or -HH:MM
valid_offset(t) ==
    /\ Len(t) = 6
    /\ Char(t, 1) \in {"+", "-"}
    /\ all_digits(SubSeq(t, 2, 3)) /\ Char(t, 4) = ":" /\ all_digits(SubSeq(t, 5, 6))
    /\ int_of(SubSeq(t, 2, 3)) < 24 /\ int_of(SubSeq(t, 5, 6)) < 60

\* HH[:MM[:SS[.fff[fff]]]] without offset
valid_clock(t) ==
    /\ Len(t) \in {2, 5, 8, 12, 15}
    /\ all_digits(SubSeq(t, 1, 2)) /\ int_of(SubSeq(t, 1, 2)) < 24
    /\ Len(t) >= 5 =>
          Char(t, 3) = ":" /\ all_digits(SubSeq(t, 4, 5)) /\ int_of(SubSeq(t, 4, 5)) < 60
    /\ Len(t) >= 8 =>
          Char(t, 6) = ":" /\ all_digits(SubSeq(t, 7, 8)) /\ int_of(SubSeq(t, 7, 8)) < 60
    /\ Len(t) >= 12 => Char(t, 9) = "." /\ all_digits(SubSeq(t, 10, Len(t)))

valid_time_part(t) ==
    IF Len(t) > 6 /\ Char(t, Len(t) - 5) \in {"+", "-"}
    THEN valid_offset(SubSeq(t, Len(t) - 5, Len(t))) /\ valid_clock(SubSeq(t, 1, Len(t) - 6))
    ELSE valid_clock(t)

\* datetime.fromisoformat(s).date(); None where Python raises ValueError
fromisoformat_date(s) ==
    IF Len(s) < 10 THEN NoneDate
    ELSE IF ~( /\ all_digits(SubSeq(s, 1, 4)) /\ Char(s, 5) = "-"
               /\ all_digits(SubSeq(s, 6, 7)) /\ Char(s, 8) = "-"
               /\ all_digits(SubSeq(s, 9, 10)) )
    THEN NoneDate
    ELSE LET y == int_of(SubSeq(s, 1, 4))
             m == int_of(SubSeq(s, 6, 7))
             d == int_of(SubSeq(s, 9, 10))
         IN  IF y < 1 \/ m < 1 \/ m > 12 THEN NoneDate
             ELSE IF d < 1 \/ d > DaysInMonth(y, m) THEN NoneDate
             ELSE IF Len(s) = 10 THEN SomeDate(Ordinal(y, m, d))
             ELSE IF Len(s) > 11 /\ valid_time_part(SubSeq(s, 12, Len(s)))
             THEN SomeDate(Ordinal(y, m, d))
             ELSE NoneDate

-----------------------------------------------------------------------------
(* ingestion/config.py *)

\* timedelta(days=3 * 365)
CutoffWindowDays == 3 * 365

\* (datetime.now(timezone.utc) - timedelta(days=3 * 365)).date()
ComputeCutoff(utcToday) == utcToday - CutoffWindowDays

DATA_DOMAIN_KEYWORDS ==
    << "data engineer", "data engineering", "data science", "data scientist",
       "big data", "machine learning", "ml engineer", "ai ",
       "artificial intelligence", "analytics", "data analyst",
       "business intelligence", "bi ", "etl", "data pipeline",
       "data warehouse", "data lake" >>

DATA_DOMAIN_JOB_TITLES ==
    << "Data Engineer", "Data Scientist", "Data Analyst", "Analytics Engineer",
       "Business Analyst", "Machine Learning Engineer" >>

-----------------------------------------------------------------------------
(* ingestion/filters.py *)

last_3_years_strict(posted_date) ==
    IF ~posted_date.some THEN FALSE ELSE posted_date.v > CUTOFF_DATE

last_3_years(posted_date) ==
    IF ~posted_date.some THEN FALSE ELSE posted_date.v >= CUTOFF_DATE

combined_text_nolower(title, description, skills) ==
    LET p1 == IF TruthyStr(title) THEN <<title.v>> ELSE <<>>
        p2 == IF TruthyStr(description) THEN <<description.v>> ELSE <<>>
        p3 == IF TruthyList(skills) THEN <<join(" ", skills.v)>> ELSE <<>>
    IN  join(" ", p1 \o p2 \o p3)

combined_text(title, description, skills) ==
    LET p1 == IF TruthyStr(title) THEN <<title.v>> ELSE <<>>
        p2 == IF TruthyStr(description) THEN <<description.v>> ELSE <<>>
        p3 == IF TruthyList(skills) THEN <<join(" ", skills.v)>> ELSE <<>>
    IN  lower(join(" ", p1 \o p2 \o p3))

\* for kw in DATA_DOMAIN_KEYWORDS[k..]: if kw.lower() in text: return True
RECURSIVE keyword_loop(_, _)
keyword_loop(text, k) ==
    IF k > Len(DATA_DOMAIN_KEYWORDS) THEN FALSE
    ELSE IF contains(lower(DATA_DOMAIN_KEYWORDS[k]), text) THEN TRUE
    ELSE keyword_loop(text, k + 1)

data_domain_only(title, description, skills, job_title_short) ==
    IF /\ TruthyStr(job_title_short)
       /\ strip(job_title_short.v) # ""
       /\ \E i \in 1..Len(DATA_DOMAIN_JOB_TITLES) :
              DATA_DOMAIN_JOB_TITLES[i] = strip(job_title_short.v)
    THEN TRUE
    ELSE LET text == combined_text(title, description, skills)
         IN  IF text = "" THEN FALSE ELSE keyword_loop(text, 1)

-----------------------------------------------------------------------------
(* Source records.  A cell is a value of a dataset row: None, float NaN     *)
(* (an empty CSV cell), a str, a date, a datetime (its date part d), a list *)
(* of str, or a number (s is its str()).                                    *)

CellNone == [k |-> "none", s |-> "", d |-> 0, l |-> <<>>]
CellNaN == [k |-> "nan", s |-> "nan", d |-> 0, l |-> <<>>]
CellStr(t) == [k |-> "str", s |-> t, d |-> 0, l |-> <<>>]
CellDate(n) == [k |-> "date", s |-> "", d |-> n, l |-> <<>>]
CellDateTime(n) == [k |-> "datetime", s |-> "", d |-> n, l |-> <<>>]
CellList(items) == [k |-> "list", s |-> "", d |-> 0, l |-> items]
CellNum(t) == [k |-> "num", s |-> t, d |-> 0, l |-> <<>>]

\* row.get(key)
get(row, key) == IF key \in DOMAIN row THEN row[key] ELSE CellNone

\* pd.isna(v)
isna(v) == v.k \in {"none", "nan"}

\* str(v) of a cell that holds text or a number
str_of(v) == v.s

\* a value passed through unchanged to an Optional[str] field
opt_str(v) == IF v.k = "str" THEN SomeStr(v.s) ELSE NoneStr

\* x or None
or_none(t) == IF t = "" THEN NoneStr ELSE SomeStr(t)

-----------------------------------------------------------------------------
(* ingestion/schema.py *)

RawJobRow(source_id, source_name, job_title, job_description, company_name, location, posted_date, job_url, skills, salary_info, ingested_at) ==
    [source_id |-> source_id, source_name |-> source_name, job_title |-> job_title,
     job_description |-> job_description, company_name |-> company_name,
     location |-> location, posted_date |-> posted_date, job_url |-> job_url,
     skills |-> skills, salary_info |-> salary_info, ingested_at |-> ingested_at]

\* datetime.now() read at second `sec` of day `day`
DateTime(day, sec) == [d |-> day, sec |-> sec]

NoRow == [some |-> FALSE,
          v |-> RawJobRow("", "", NoneStr, NoneStr, NoneStr, NoneStr, NoneDate,
                          NoneStr, NoneList, NoneStr, DateTime(0, 0))]
SomeRow(r) == [some |-> TRUE, v |-> r]

\* a serialization that keeps the day of ingested_at and drops its time
to_load_dict_day_only(r) ==
    [r EXCEPT !.posted_date = IF r.posted_date.some
                              THEN SomeStr(isoformat(r.posted_date.v)) ELSE NoneStr,
              !.ingested_at = isoformat(r.ingested_at.d) \o "T00:00:00"]

\* model_dump(mode="json"): date -> "YYYY-MM-DD", datetime -> "YYYY-MM-DDTHH:MM:SS"
to_load_dict(r) ==
    [r EXCEPT !.posted_date = IF r.posted_date.some
                              THEN SomeStr(isoformat(r.posted_date.v)) ELSE NoneStr,
              !.ingested_at = isoformat(r.ingested_at.d) \o "T"
                                  \o isoformat_time(r.ingested_at.sec)]

-----------------------------------------------------------------------------
(* ingestion/sources/huggingface_data_jobs.py *)

HF_SOURCE_ID == "huggingface_data_jobs"
HF_SOURCE_NAME == "Hugging Face data_jobs"

hf_parse_date(value) ==
    IF value.k = "none" THEN NoneDate
    ELSE IF value.k = "date" THEN SomeDate(value.d)
    ELSE IF value.k = "datetime" THEN SomeDate(value.d)
    ELSE IF value.k = "str"
    THEN fromisoformat_date(replace_char(value.s, "Z", "+00:00"))
    ELSE NoneDate

hf_skills_list(value) ==
    IF value.k = "none" THEN NoneList
    ELSE IF value.k = "list" THEN SomeList(value.l)
    ELSE IF value.k = "str" THEN SomeList(<<value.s>>)
    ELSE NoneList

hf_row_to_canonical_domain_first(row, stamp) ==
    LET posted == hf_parse_date(get(row, "job_posted_date"))
        title == opt_str(get(row, "job_title"))
        desc == NoneStr
        skills == hf_skills_list(get(row, "job_skills"))
        job_title_short == opt_str(get(row, "job_title_short"))
    IN  IF ~data_domain_only(title, desc, skills, job_title_short)
        THEN [out |-> NoRow, trace |-> <<"resolve_date", "extract_text", "data_domain_only">>]
        ELSE IF ~last_3_years(posted)
        THEN [out |-> NoRow,
              trace |-> <<"resolve_date", "extract_text", "data_domain_only", "last_3_years">>]
        ELSE [out |-> SomeRow(RawJobRow(HF_SOURCE_ID, HF_SOURCE_NAME, title, desc,
                          opt_str(get(row, "company_name")),
                          opt_str(get(row, "job_location")), posted, NoneStr, skills,
                          IF get(row, "salary_year_avg").k # "none"
                          THEN SomeStr(str_of(get(row, "salary_year_avg"))) ELSE NoneStr,
                          stamp)),
              trace |-> <<"resolve_date", "extract_text", "data_domain_only",
                          "last_3_years", "extract_rest">>]

\* the trace lists the steps the call performed, in order
hf_row_to_canonical(row, stamp) ==
    LET posted == hf_parse_date(get(row, "job_posted_date"))
    IN  IF ~last_3_years(posted)
        THEN [out |-> NoRow, trace |-> <<"resolve_date", "last_3_years">>]
        ELSE LET title == opt_str(get(row, "job_title"))
                 desc == NoneStr
                 skills == hf_skills_list(get(row, "job_skills"))
                 job_title_short == opt_str(get(row, "job_title_short"))
             IN  IF ~data_domain_only(title, desc, skills, job_title_short)
                 THEN [out |-> NoRow,
                       trace |-> <<"resolve_date", "last_3_years", "extract_text",
                                   "data_domain_only">>]
                 ELSE [out |-> SomeRow(RawJobRow(HF_SOURCE_ID, HF_SOURCE_NAME, title, desc,
                                   opt_str(get(row, "company_name")),
                                   opt_str(get(row, "job_location")), posted, NoneStr, skills,
                                   IF get(row, "salary_year_avg").k # "none"
                                   THEN SomeStr(str_of(get(row, "salary_year_avg")))
                                   ELSE NoneStr,
                                   stamp)),
                       trace |-> <<"resolve_date", "last_3_years", "extract_text",
                                   "data_domain_only", "extract_rest">>]

-----------------------------------------------------------------------------
(* A column map is a dict in insertion order: a sequence of [col, canon].   *)

Entry(col, canon) == [col |-> col, canon |-> canon]

Range(seq) == {seq[i] : i \in 1..Len(seq)}

\* set(col_map.values())
values(cmap) == {cmap[i].canon : i \in 1..Len(cmap)}

\* c in col_map
has_key(cmap, c) == \E i \in 1..Len(cmap) : cmap[i].col = c

-----------------------------------------------------------------------------
(* ingestion/sources/kaggle_linkedin_jobs_skills_2024.py *)

LI_SOURCE_ID == "kaggle_linkedin_jobs_skills_2024"
LI_SOURCE_NAME == "Kaggle 1.3M LinkedIn Jobs & Skills 2024"
LI_DEFAULT_POSTED_DATE == Ordinal(2024, 1, 1)

\* the if/elif chain of _infer_column_map on s = str(c).lower().strip();
\* "" when no branch applies
li_canon_of(s) ==
    IF contains("title", s) \/ contains("job_title", s) \/ s = "job" THEN "job_title"
    ELSE IF contains("description", s) \/ contains("desc", s) \/ contains("content", s)
    THEN "job_description"
    ELSE IF contains("company", s) THEN "company_name"
    ELSE IF contains("location", s) \/ contains("loc", s) \/ contains("place", s)
    THEN "location"
    ELSE IF contains("salary", s) \/ contains("pay", s) THEN "salary_info"
    ELSE IF contains("posted", s) \/ contains("date", s) \/ contains("time", s)
    THEN "posted_date"
    ELSE IF contains("url", s) \/ contains("link", s) THEN "job_url"
    ELSE IF contains("skill", s) THEN "skills"
    ELSE ""

RECURSIVE li_infer_column_map(_)
li_infer_column_map(cols) ==
    IF cols = <<>> THEN <<>>
    ELSE LET c == Head(cols)
             canon == li_canon_of(strip(lower(c)))
         IN  (IF canon = "" THEN <<>> ELSE <<Entry(c, canon)>>)
                 \o li_infer_column_map(Tail(cols))

\* numbers are read as nanoseconds since the epoch: CSV numbers of ordinary
\* size fall on 1970-01-01
li_parse_date(val) ==
    IF isna(val) THEN NoneDate
    ELSE IF val.k = "date" THEN SomeDate(val.d)
    ELSE IF val.k = "datetime" THEN SomeDate(val.d)
    ELSE IF val.k = "str" THEN fromisoformat_date(val.s)
    ELSE IF val.k = "num" THEN SomeDate(Ordinal(1970, 1, 1))
    ELSE NoneDate

RECURSIVE strip_nonempty(_)
strip_nonempty(parts) ==
    IF parts = <<>> THEN <<>>
    ELSE (IF Head(parts) # "" /\ strip(Head(parts)) # ""
          THEN <<strip(Head(parts))>> ELSE <<>>) \o strip_nonempty(Tail(parts))

li_skills_to_list(val) ==
    IF isna(val) THEN NoneList
    ELSE IF val.k = "list" THEN SomeList(val.l)
    ELSE IF val.k = "str"
    THEN IF contains(";", val.s) \/ contains("|", val.s) \/ contains(",", val.s)
         THEN SomeList(strip_nonempty(
                  split(replace_char(replace_char(val.s, ";", "|"), ",", "|"), "|")))
         ELSE IF strip(val.s) # "" THEN SomeList(<<strip(val.s)>>) ELSE NoneList
    ELSE NoneList

\* the first loop of _row_to_canonical: the first posted_date column decides
RECURSIVE li_posted(_, _, _)
li_posted(row, cmap, k) ==
    IF k > Len(cmap) THEN SomeDate(LI_DEFAULT_POSTED_DATE)
    ELSE IF cmap[k].canon = "posted_date"
    THEN LET v == li_parse_date(get(row, cmap[k].col))
         IN  IF v.some THEN v ELSE SomeDate(LI_DEFAULT_POSTED_DATE)
    ELSE li_posted(row, cmap, k + 1)

\* the second loop: title, description, skills
RECURSIVE li_text_loop(_, _, _, _)
li_text_loop(row, cmap, k, acc) ==
    IF k > Len(cmap) THEN acc
    ELSE LET v == get(row, cmap[k].col)
             canon == cmap[k].canon
         IN  IF isna(v) THEN li_text_loop(row, cmap, k + 1, acc)
             ELSE IF canon = "job_title"
             THEN li_text_loop(row, cmap, k + 1,
                               [acc EXCEPT !.title = or_none(strip(str_of(v)))])
             ELSE IF canon = "job_description"
             THEN li_text_loop(row, cmap, k + 1,
                               [acc EXCEPT !.desc = or_none(strip(str_of(v)))])
             ELSE IF canon = "skills"
             THEN li_text_loop(row, cmap, k + 1,
                               [acc EXCEPT !.skills = li_skills_to_list(v)])
             ELSE li_text_loop(row, cmap, k + 1, acc)

\* the third loop: company, location, salary, url
RECURSIVE li_rest_loop(_, _, _, _)
li_rest_loop(row, cmap, k, acc) ==
    IF k > Len(cmap) THEN acc
    ELSE LET v == get(row, cmap[k].col)
             canon == cmap[k].canon
         IN  IF isna(v) THEN li_rest_loop(row, cmap, k + 1, acc)
             ELSE IF canon = "company_name"
             THEN li_rest_loop(row, cmap, k + 1,
                               [acc EXCEPT !.company = SomeStr(strip(str_of(v)))])
             ELSE IF canon = "location"
             THEN li_rest_loop(row, cmap, k + 1,
                               [acc EXCEPT !.location = SomeStr(strip(str_of(v)))])
             ELSE IF canon = "salary_info"
             THEN li_rest_loop(row, cmap, k + 1,
                               [acc EXCEPT !.salary_info = SomeStr(strip(str_of(v)))])
             ELSE IF canon = "job_url"
             THEN li_rest_loop(row, cmap, k + 1,
                               [acc EXCEPT !.job_url = SomeStr(strip(str_of(v)))])
             ELSE li_rest_loop(row, cmap, k + 1, acc)

li_row_to_canonical(row, cmap, stamp) ==
    LET posted == li_posted(row, cmap, 1)
    IN  IF ~last_3_years(posted)
        THEN [out |-> NoRow, trace |-> <<"resolve_date", "last_3_years">>]
        ELSE LET text == li_text_loop(row, cmap, 1,
                             [title |-> NoneStr, desc |-> NoneStr, skills |-> NoneList])
             IN  IF ~data_domain_only(text.title, text.desc, text.skills, NoneStr)
                 THEN [out |-> NoRow,
                       trace |-> <<"resolve_date", "last_3_years", "extract_text",
                                   "data_domain_only">>]
                 ELSE LET rest == li_rest_loop(row, cmap, 1,
                                      [company |-> NoneStr, location |-> NoneStr,
                                       salary_info |-> NoneStr, job_url |-> NoneStr])
                      IN  [out |-> SomeRow(RawJobRow(LI_SOURCE_ID, LI_SOURCE_NAME,
                                       text.title, text.desc, rest.company, rest.location,
                                       posted, rest.job_url, text.skills, rest.salary_info,
                                       stamp)),
                           trace |-> <<"resolve_date", "last_3_years", "extract_text",
                                       "data_domain_only", "extract_rest">>]

-----------------------------------------------------------------------------
(* ingestion/sources/kaggle_data_engineer_2023.py *)

DE_SOURCE_ID == "kaggle_data_engineer_2023"
DE_SOURCE_NAME == "Kaggle Data Engineer Job Postings 2023"
DE_DEFAULT_POSTED_DATE == Ordinal(2023, 4, 1)

EXACT_COLUMN_MAP ==
    << Entry("Job_details", "job_title"),
       Entry("Job_details.1", "job_description"),
       Entry("Company_info", "company_name"),
       Entry("Job_details.4", "location_city"),
       Entry("Job_details.5", "location_state"),
       Entry("Job_details.6", "location_country"),
       Entry("Salary.2", "salary_avg"),
       Entry("Salary.3", "salary_currency") >>

\* normalized key -> canonical
NORM_TO_CANON ==
    << Entry("job_title", "job_title"),
       Entry("title", "job_title"),
       Entry("description", "job_description"),
       Entry("desc", "job_description"),
       Entry("location", "location"),
       Entry("company_name", "company_name"),
       Entry("company", "company_name"),
       Entry("salary", "salary_info") >>

norm_col(name) ==
    replace_char(replace_char(lower(strip(name)), " ", "_"), "-", "_")

\* the second loop of _normalize_columns
RECURSIVE de_norm_lookup(_)
de_norm_lookup(cols) ==
    IF cols = <<>> THEN <<>>
    ELSE LET c == Head(cols)
             n == norm_col(c)
         IN  (IF has_key(NORM_TO_CANON, n)
              THEN <<Entry(c, (CHOOSE e \in Range(NORM_TO_CANON) : e.col = n).canon)>>
              ELSE <<>>) \o de_norm_lookup(Tail(cols))

de_normalize_columns(cols) ==
    LET InColumns(e) == e.col \in Range(cols)
        out == SelectSeq(EXACT_COLUMN_MAP, InColumns)
    IN  IF out # <<>> THEN out ELSE de_norm_lookup(cols)


\* the substring loop of stream_kaggle_data_engineer_2023 over chunk.columns
RECURSIVE de_substring_fallback(_, _, _)
de_substring_fallback(cols, cmap, vals) ==
    IF cols = <<>> THEN cmap
    ELSE LET c == Head(cols)
             n == norm_col(c)
             rest == Tail(cols)
         IN  IF has_key(cmap, c) THEN de_substring_fallback(rest, cmap, vals)
             ELSE IF "job_title" \notin vals /\ contains("title", n)
             THEN de_substring_fallback(rest, Append(cmap, Entry(c, "job_title")),
                                        vals \cup {"job_title"})
             ELSE IF "job_description" \notin vals
                     /\ (contains("description", n) \/ contains("desc", n))
             THEN de_substring_fallback(rest, Append(cmap, Entry(c, "job_description")),
                                        vals \cup {"job_description"})
             ELSE IF "location" \notin vals
                     /\ (contains("location", n) \/ contains("loc", n))
             THEN de_substring_fallback(rest, Append(cmap, Entry(c, "location")),
                                        vals \cup {"location"})
             ELSE IF "company_name" \notin vals /\ contains("company", n)
             THEN de_substring_fallback(rest, Append(cmap, Entry(c, "company_name")),
                                        vals \cup {"company_name"})
             ELSE IF "salary_info" \notin vals /\ contains("salary", n)
             THEN de_substring_fallback(rest, Append(cmap, Entry(c, "salary_info")),
                                        vals \cup {"salary_info"})
             ELSE de_substring_fallback(rest, cmap, vals)

\* col_map as stream_kaggle_data_engineer_2023 builds it on the first chunk
de_build_col_map(cols) ==
    LET cmap == de_normalize_columns(cols)
    IN  de_substring_fallback(cols, cmap, values(cmap))

DeBlank == [title |-> NoneStr, desc |-> NoneStr, company |-> NoneStr,
            location_city |-> NoneStr, location_state |-> NoneStr,
            location_country |-> NoneStr, location_single |-> NoneStr,
            salary_avg |-> NoneStr, salary_currency |-> NoneStr]

\* the loop of _row_to_canonical over col_map.items()
RECURSIVE de_field_loop(_, _, _, _)
de_field_loop(row, cmap, k, acc) ==
    IF k > Len(cmap) THEN acc
    ELSE LET v == get(row, cmap[k].col)
             canon == cmap[k].canon
             t == strip(str_of(v))
             next(a) == de_field_loop(row, cmap, k + 1, a)
         IN  IF isna(v) THEN next(acc)
             ELSE IF t = "" THEN next(acc)
             ELSE IF canon = "job_title" THEN next([acc EXCEPT !.title = SomeStr(t)])
             ELSE IF canon = "job_description" THEN next([acc EXCEPT !.desc = SomeStr(t)])
             ELSE IF canon = "company_name" THEN next([acc EXCEPT !.company = SomeStr(t)])
             ELSE IF canon = "location"
             THEN next([acc EXCEPT !.location_single = SomeStr(t)])
             ELSE IF canon = "location_city"
             THEN next([acc EXCEPT !.location_city = SomeStr(t)])
             ELSE IF canon = "location_state"
             THEN next([acc EXCEPT !.location_state = SomeStr(t)])
             ELSE IF canon = "location_country"
             THEN next([acc EXCEPT !.location_country = SomeStr(t)])
             ELSE IF canon = "salary_info" THEN next([acc EXCEPT !.salary_avg = SomeStr(t)])
             ELSE IF canon = "salary_avg" THEN next([acc EXCEPT !.salary_avg = SomeStr(t)])
             ELSE IF canon = "salary_currency"
             THEN next([acc EXCEPT !.salary_currency = SomeStr(t)])
             ELSE next(acc)

\* a filter that keeps an absent part as an empty segment
filter_none_keep(parts) == [k \in 1..Len(parts) |-> parts[k].v]

\* filter(None, parts) over Optional[str] values
RECURSIVE filter_none(_)
filter_none(parts) ==
    IF parts = <<>> THEN <<>>
    ELSE (IF TruthyStr(Head(parts)) THEN <<Head(parts).v>> ELSE <<>>)
             \o filter_none(Tail(parts))

\* a normalizer that does not apply the recency filter
de_row_to_canonical_no_recency(row, cmap, stamp) ==
    LET posted == SomeDate(DE_DEFAULT_POSTED_DATE)
        f == de_field_loop(row, cmap, 1, DeBlank)
        location ==
            IF TruthyStr(f.location_single) THEN f.location_single
            ELSE or_none(join(", ", filter_none(<<f.location_city,
                                 f.location_state, f.location_country>>)))
        salary_info ==
            IF TruthyStr(f.salary_avg) \/ TruthyStr(f.salary_currency)
            THEN SomeStr(join(" ", filter_none(<<f.salary_avg, f.salary_currency>>)))
            ELSE NoneStr
    IN  [out |-> SomeRow(RawJobRow(DE_SOURCE_ID, DE_SOURCE_NAME, f.title, f.desc,
                     f.company, location, posted, NoneStr, NoneList, salary_info,
                     stamp)),
         trace |-> <<"resolve_date", "extract_text", "extract_rest">>]

de_row_to_canonical(row, cmap, stamp) ==
    LET posted == SomeDate(DE_DEFAULT_POSTED_DATE)
    IN  IF ~last_3_years(posted)
        THEN [out |-> NoRow, trace |-> <<"resolve_date", "last_3_years">>]
        ELSE LET f == de_field_loop(row, cmap, 1, DeBlank)
                 location ==
                     IF TruthyStr(f.location_single) THEN f.location_single
                     ELSE or_none(join(", ", filter_none(<<f.location_city,
                                          f.location_state, f.location_country>>)))
                 salary_info ==
                     IF TruthyStr(f.salary_avg) \/ TruthyStr(f.salary_currency)
                     THEN SomeStr(join(" ", filter_none(<<f.salary_avg, f.salary_currency>>)))
                     ELSE NoneStr
             IN  [out |-> SomeRow(RawJobRow(DE_SOURCE_ID, DE_SOURCE_NAME, f.title, f.desc,
                              f.company, location, posted, NoneStr, NoneList, salary_info,
                              stamp)),
                  trace |-> <<"resolve_date", "last_3_years", "extract_text",
                              "extract_rest">>]

-----------------------------------------------------------------------------
(* The streaming readers as generators: one action per loop iteration.      *)

NoColMap == [set |-> FALSE, m |-> <<>>]

\* no reader runs
ReaderIdle ==
    /\ source = "none" /\ columns = <<>> /\ dataset = <<>> /\ batch_size = 1
    /\ col_map = NoColMap /\ pos = 0 /\ batch = <<>> /\ yielded = <<>>
    /\ traces = <<>> /\ origin = <<>> /\ pc = "idle"

\* a reader called on a source
ReaderCalled(src, cols, rows, size) ==
    /\ source = src /\ columns = cols /\ dataset = rows /\ batch_size = size
    /\ col_map = NoColMap /\ pos = 0 /\ batch = <<>> /\ yielded = <<>>
    /\ traces = <<>> /\ origin = <<>> /\ pc = "start"

\* the second of the day at which the reader starts
StartSecond == 36000

\* datetime.now() while record number i (from 0) is normalized
Stamp(i) == DateTime(now, StartSecond + i)

\* the statements before the loop: open the source
ReaderStart ==
    /\ pc = "start"
    /\ pc' = "loop"
    /\ UNCHANGED <<clockVars, call, source, columns, dataset, batch_size, col_map, pos,
                   batch, yielded, traces, origin>>

\* a loop body that yields when the batch is longer than batch_size
Collect_late_yield(r) ==
    /\ traces' = Append(traces, r.trace)
    /\ pos' = pos + 1
    /\ IF ~r.out.some
       THEN UNCHANGED <<batch, yielded, origin>>
       ELSE LET b == Append(batch, to_load_dict(r.out.v))
            IN  /\ origin' = Append(origin, pos + 1)
                /\ IF Len(b) > batch_size
                   THEN yielded' = Append(yielded, b) /\ batch' = <<>>
                   ELSE yielded' = yielded /\ batch' = b

\* the loop body after _row_to_canonical returned r for record number pos + 1
Collect(r) ==
    /\ traces' = Append(traces, r.trace)
    /\ pos' = pos + 1
    /\ IF ~r.out.some
       THEN UNCHANGED <<batch, yielded, origin>>
       ELSE LET b == Append(batch, to_load_dict(r.out.v))
            IN  /\ origin' = Append(origin, pos + 1)
                /\ IF Len(b) >= batch_size
                   THEN yielded' = Append(yielded, b) /\ batch' = <<>>
                   ELSE yielded' = yielded /\ batch' = b

HFStep ==
    /\ pc = "loop" /\ source = "huggingface" /\ pos < Len(dataset)
    /\ Collect(hf_row_to_canonical(dataset[pos + 1], Stamp(pos)))
    /\ UNCHANGED <<clockVars, call, source, columns, dataset, batch_size, col_map, pc>>

LIStep ==
    /\ pc = "loop" /\ source = "linkedin_skills" /\ pos < Len(dataset)
    /\ LET cm == IF col_map.set THEN col_map.m ELSE li_infer_column_map(columns)
       IN  /\ col_map' = [set |-> TRUE, m |-> cm]
           /\ Collect(li_row_to_canonical(dataset[pos + 1], cm, Stamp(pos)))
    /\ UNCHANGED <<clockVars, call, source, columns, dataset, batch_size, pc>>

DEStep ==
    /\ pc = "loop" /\ source = "data_engineer" /\ pos < Len(dataset)
    /\ LET cm == IF col_map.set THEN col_map.m ELSE de_build_col_map(columns)
       IN  /\ col_map' = [set |-> TRUE, m |-> cm]
           /\ Collect(de_row_to_canonical(dataset[pos + 1], cm, Stamp(pos)))
    /\ UNCHANGED <<clockVars, call, source, columns, dataset, batch_size, pc>>

\* the loop is exhausted and the rest is dropped: "if batch: yield batch" left out
ReaderFinish_no_flush ==
    /\ pc = "loop" /\ pos = Len(dataset)
    /\ batch' = <<>> /\ yielded' = yielded
    /\ pc' = "done"
    /\ UNCHANGED <<clockVars, call, source, columns, dataset, batch_size, col_map, pos,
                   traces, origin>>

\* the loop is exhausted: if batch: yield batch
ReaderFinish ==
    /\ pc = "loop" /\ pos = Len(dataset)
    /\ IF batch # <<>>
       THEN yielded' = Append(yielded, batch) /\ batch' = <<>>
       ELSE UNCHANGED <<yielded, batch>>
    /\ pc' = "done"
    /\ UNCHANGED <<clockVars, call, source, columns, dataset, batch_size, col_map, pos,
                   traces, origin>>

\* the record of an earlier invocation of the reader: how many records it
\* had consumed and the batches it had yielded when it was abandoned
EarlierInvocation ==
    [op |-> "stream", done |-> pc = "done", consumed |-> pos, yielded |-> yielded]

\* an invocation that resumes after the records the earlier one consumed
ReaderInvokeAgain_resume ==
    /\ pc \in {"loop", "done"} /\ call.op = "none"
    /\ call' = EarlierInvocation
    /\ \E later \in 0..1 : now' = now + later
    /\ col_map' = NoColMap /\ pos' = pos /\ batch' = <<>> /\ yielded' = <<>>
    /\ traces' = <<>> /\ origin' = <<>> /\ pc' = "start"
    /\ UNCHANGED <<importedAt, CUTOFF_DATE, source, columns, dataset, batch_size>>

\* the reader is called again in the same process, the same day or the next,
\* on the same source: a new generator with new locals
ReaderInvokeAgain ==
    /\ pc \in {"loop", "done"} /\ call.op = "none"
    /\ call' = EarlierInvocation
    /\ \E later \in 0..1 : now' = now + later
    /\ col_map' = NoColMap /\ pos' = 0 /\ batch' = <<>> /\ yielded' = <<>>
    /\ traces' = <<>> /\ origin' = <<>> /\ pc' = "start"
    /\ UNCHANGED <<importedAt, CUTOFF_DATE, source, columns, dataset, batch_size>>

-----------------------------------------------------------------------------
(* Bounds and input samples of the filter specification *)

\* the wall clock may pass this many midnights while the process runs
MaxClockDays == 2
\* posted dates are drawn from this many days either side of the cutoff
DateWindow == 3
\* import happens on one of these many consecutive days
StartDays == 2

FirstStartDay == Ordinal(2026, 11, 6)

DateSamples ==
    {NoneDate} \cup
    {SomeDate(d) : d \in (FirstStartDay - CutoffWindowDays - DateWindow)
                          ..(FirstStartDay + StartDays - CutoffWindowDays + DateWindow)}

TitleSamples ==
    {NoneStr} \cup {SomeStr(s) : s \in
        {"", " ", "AI", "Thai Food Chef", "Senior Data Engineer", "Nurse", "Big"}}

DescriptionSamples ==
    {NoneStr} \cup {SomeStr(s) : s \in
        {"", "specialist", "Data migration", "Builds ETL jobs", "Retail sales"}}

SkillsSamples ==
    {NoneList} \cup {SomeList(l) : l \in
        {<<>>, <<"">>, <<"sql">>, <<"machine", "learning">>, <<"Power BI">>}}

LabelSamples ==
    {NoneStr} \cup {SomeStr(s) : s \in
        {"", "  ", "Data Engineer", " Data Analyst ", "data engineer",
         "Software Engineer"}}

-----------------------------------------------------------------------------------------------------------------------------------------------------
(* The filter specification: the process imports config once (fixing the    *)
(* cutoff), the wall clock advances, and a filter is called on one input.   *)

NoCall == [op |-> "none", done |-> FALSE, date |-> NoneDate, title |-> NoneStr,
           description |-> NoneStr, skills |-> NoneList, label |-> NoneStr,
           result |-> FALSE]

InitFilters ==
    /\ now \in FirstStartDay..(FirstStartDay + StartDays - 1)
    /\ importedAt = now
    /\ CUTOFF_DATE = ComputeCutoff(now)
    /\ ReaderIdle
    /\ \/ \E d \in DateSamples :
              call = [NoCall EXCEPT !.op = "last_3_years", !.date = d]
       \/ \E t \in TitleSamples, d \in DescriptionSamples,
             s \in SkillsSamples, l \in LabelSamples :
              call = [NoCall EXCEPT !.op = "data_domain_only", !.title = t,
                                    !.description = d, !.skills = s, !.label = l]

\* midnight UTC passes while the process runs
ClockTick ==
    /\ ~call.done
    /\ now < importedAt + MaxClockDays
    /\ now' = now + 1
    /\ UNCHANGED <<importedAt, CUTOFF_DATE, call>>
    /\ UNCHANGED readerVars

CallLast3Years ==
    /\ call.op = "last_3_years"
    /\ ~call.done
    /\ call' = [call EXCEPT !.done = TRUE, !.result = last_3_years(call.date)]
    /\ UNCHANGED <<clockVars, readerVars>>

CallDataDomainOnly ==
    /\ call.op = "data_domain_only"
    /\ ~call.done
    /\ call' = [call EXCEPT !.done = TRUE,
                            !.result = data_domain_only(call.title, call.description,
                                                        call.skills, call.label)]
    /\ UNCHANGED <<clockVars, readerVars>>

NextFilters == ClockTick \/ CallLast3Years \/ CallDataDomainOnly

SpecFilters == InitFilters /\ [][NextFilters]_vars

-----------------------------------------------------------------------------
(* Claims about the filters *)

\* C1: for every date value D (including missing), last_3_years(D) is true iff
\* D is present and D >= CUTOFF_DATE, where CUTOFF_DATE is the UTC date at
\* process start minus 1095 days, the same for every call however far the
\* wall clock has advanced since; a missing date gives false.
C1_Last3YearsIffOnOrAfterCutoff ==
    /\ CUTOFF_DATE = importedAt - 1095
    /\ (call.op = "last_3_years" /\ call.done) =>
          /\ call.result = (call.date.some /\ call.date.v >= importedAt - 1095)
          /\ ~call.date.some => ~call.result

\* a call on the cutoff day itself, made after the wall clock has moved on
C1_Witness ==
    /\ call.op = "last_3_years" /\ call.done
    /\ call.date = SomeDate(importedAt - 1095)
    /\ call.result
    /\ now > importedAt

\* the text the claim describes: the parts that are present, in the order
\* title, description, space-joined skills, separated by single spaces
ClaimAppend(acc, present, part) ==
    IF ~present THEN acc ELSE IF acc.n = 0 THEN [n |-> 1, s |-> part]
    ELSE [n |-> acc.n + 1, s |-> acc.s \o " " \o part]

ClaimText(t, d, s) ==
    LET a0 == [n |-> 0, s |-> ""]
        a1 == ClaimAppend(a0, t.some /\ t.v # "", t.v)
        a2 == ClaimAppend(a1, d.some /\ d.v # "", d.v)
        a3 == ClaimAppend(a2, s.some /\ Len(s.v) > 0, join(" ", s.v))
    IN  lower(a3.s)

ClaimEmpty(x) == ~x.some \/ Len(x.v) = 0

\* C2: data_domain_only is true iff the trimmed label equals a configured
\* domain label, or the lowercased space-separated concatenation of title,
\* description and space-joined skills contains a configured keyword as a
\* substring; it is false when all four inputs are empty or missing.
C2_DataDomainOnlyIffLabelOrKeyword ==
    (call.op = "data_domain_only" /\ call.done) =>
        LET labelHit == /\ call.label.some
                        /\ strip(call.label.v) \in
                             {DATA_DOMAIN_JOB_TITLES[i] : i \in 1..Len(DATA_DOMAIN_JOB_TITLES)}
            text == ClaimText(call.title, call.description, call.skills)
            keywordHit == \E k \in 1..Len(DATA_DOMAIN_KEYWORDS) :
                              \E i \in 1..Len(text) :
                                  /\ i + Len(DATA_DOMAIN_KEYWORDS[k]) - 1 <= Len(text)
                                  /\ SubSeq(text, i, i + Len(DATA_DOMAIN_KEYWORDS[k]) - 1)
                                       = DATA_DOMAIN_KEYWORDS[k]
        IN  /\ call.result = (labelHit \/ keywordHit)
            /\ ( /\ ClaimEmpty(call.title) /\ ClaimEmpty(call.description)
                 /\ ClaimEmpty(call.skills) /\ ClaimEmpty(call.label) ) => ~call.result

\* a keyword that is found only across the title/description join, in mixed case
C2_Witness ==
    /\ call.op = "data_domain_only" /\ call.done
    /\ call.title = SomeStr("Big") /\ call.description = SomeStr("Data migration")
    /\ call.skills = NoneList /\ call.label = SomeStr("Software Engineer")
    /\ call.result

-----------------------------------------------------------------------------
(* Bounds and input samples of the reader specification *)

\* a source holds at most this many records
MaxRows == 3
\* the reader is called with batch_size in 1..MaxBatch
MaxBatch == 2

\* a row of a source with header cols: cells[i] is the value under cols[i]
MakeRow(cols, cells) ==
    [c \in Range(cols) |-> cells[CHOOSE i \in 1..Len(cols) : cols[i] = c]]

\* sequences over S of length at most n
RECURSIVE SeqsUpTo(_, _)
SeqsUpTo(S, n) ==
    IF n = 0 THEN {<<>>}
    ELSE LET shorter == SeqsUpTo(S, n - 1)
         IN  shorter \cup {Append(q, x) : q \in {t \in shorter : Len(t) = n - 1}, x \in S}

IsDistinct(q) == \A i, k \in 1..Len(q) : i # k => q[i] # q[k]

\* sequences over S of length at most n without a repeated element
DistinctSeqsUpTo(S, n) == {q \in SeqsUpTo(S, n) : IsDistinct(q)}

\* days on which the process starts: before and after the default posted
\* dates of the Kaggle sources leave the three-year window
ReaderStartDays == {Ordinal(2026, 3, 1), Ordinal(2027, 2, 1)}

HFHeader ==
    <<"job_title_short", "job_title", "job_location", "job_posted_date",
      "salary_year_avg", "company_name", "job_skills">>

HFRows ==
    { \* recent, in the domain by its label
      MakeRow(HFHeader, <<CellStr("Data Engineer"), CellStr("Senior Data Engineer"),
                          CellStr("Berlin"), CellDateTime(Ordinal(2025, 6, 1)),
                          CellNum("120000.0"), CellStr("Acme"),
                          CellList(<<"sql", "python">>)>>),
      \* too old and off the domain
      MakeRow(HFHeader, <<CellStr("Nurse"), CellStr("Nurse"), CellNone,
                          CellDate(Ordinal(2020, 1, 1)), CellNone, CellStr("Clinic"),
                          CellNone>>),
      \* recent (an ISO string with Z) and off the domain
      MakeRow(HFHeader, <<CellStr("Sales"), CellStr("Sales Manager"), CellStr("Paris"),
                          CellStr("2025-06-01T10:00:00Z"), CellNone, CellNone,
                          CellStr("crm")>>),
      \* no posted date, in the domain
      MakeRow(HFHeader, <<CellStr(" Data Analyst "), CellStr("Data Analyst"), CellNone,
                          CellNone, CellNone, CellStr("Initech"), CellNone>>),
      \* an unparseable posted date, in the domain by a keyword in its skills
      MakeRow(HFHeader, <<CellNone, CellStr("Developer"), CellNone,
                          CellStr("06/01/2025"), CellNone, CellNone,
                          CellStr("etl")>>) }

LIHeader ==
    <<"job_link", "first_seen_date", "job_title", "company", "job_location", "job_skills">>

LIRows ==
    { \* recent, in the domain
      MakeRow(LIHeader, <<CellStr("http://jobs/1"), CellStr("2025-06-01"),
                          CellStr("Data Engineer"), CellStr("Acme"), CellStr("Berlin"),
                          CellStr("Python, SQL")>>),
      \* too old and off the domain
      MakeRow(LIHeader, <<CellStr("http://jobs/2"), CellStr("2020-01-01"),
                          CellStr("Nurse"), CellStr("Clinic"), CellNaN, CellStr("care")>>),
      \* recent and off the domain
      MakeRow(LIHeader, <<CellStr("http://jobs/3"), CellStr("2025-06-01 08:00:00"),
                          CellStr("Sales Manager"), CellNaN, CellStr("Paris"), CellNaN>>),
      \* no posted date, in the domain
      MakeRow(LIHeader, <<CellStr("http://jobs/4"), CellNaN, CellStr(" Data Analyst "),
                          CellStr(" "), CellNaN, CellStr("sql; excel")>>),
      \* an unparseable posted date, in the domain by its skills
      MakeRow(LIHeader, <<CellNaN, CellStr("last week"), CellStr("Developer"),
                          CellStr("Initech"), CellStr("Rome"), CellStr("etl|java")>>) }

DEHeader ==
    <<"Job_details", "Job_details.1", "Company_info", "Job_details.4", "Job_details.5",
      "Job_details.6", "Salary.2", "Salary.3">>

DERows ==
    { MakeRow(DEHeader, <<CellStr("Data Engineer"), CellStr("Build data pipelines"),
                          CellStr("Acme"), CellStr("Austin"), CellStr("TX"), CellStr("US"),
                          CellNum("120000.0"), CellStr("USD")>>),
      MakeRow(DEHeader, <<CellStr("Platform Engineer"), CellNaN, CellStr(" "), CellNaN,
                          CellStr("CA"), CellStr("US"), CellNaN, CellStr("USD")>>),
      MakeRow(DEHeader, <<CellNaN, CellNaN, CellNaN, CellNaN, CellNaN, CellNaN,
                          CellNaN, CellNaN>>) }

-----------------------------------------------------------------------------
(* The reader specification: the process imports config, then one reader    *)
(* is iterated to exhaustion over one source.                               *)

InitReaders ==
    /\ now \in ReaderStartDays
    /\ importedAt = now
    /\ CUTOFF_DATE = ComputeCutoff(now)
    /\ call = NoCall
    /\ \E size \in 1..MaxBatch :
          \/ \E rows \in DistinctSeqsUpTo(HFRows, MaxRows) :
                 ReaderCalled("huggingface", HFHeader, rows, size)
          \/ \E rows \in DistinctSeqsUpTo(LIRows, MaxRows) :
                 ReaderCalled("linkedin_skills", LIHeader, rows, size)
          \/ \E rows \in SeqsUpTo(DERows, MaxRows) :
                 ReaderCalled("data_engineer", DEHeader, rows, size)

NextReaders == ReaderStart \/ HFStep \/ LIStep \/ DEStep \/ ReaderFinish

SpecReaders == InitReaders /\ [][NextReaders]_vars

-----------------------------------------------------------------------------
(* Claims about the readers' filter gate *)

RECURSIVE Flatten(_)
Flatten(batches) ==
    IF batches = <<>> THEN <<>> ELSE Head(batches) \o Flatten(Tail(batches))

\* the column map the reader uses for its source
UsedColMap ==
    IF source = "linkedin_skills" THEN li_infer_column_map(columns)
    ELSE IF source = "data_engineer" THEN de_build_col_map(columns)
    ELSE <<>>

\* the posted date a record resolves to
ResolvedPostedDate(row) ==
    IF source = "huggingface" THEN hf_parse_date(get(row, "job_posted_date"))
    ELSE IF source = "linkedin_skills" THEN li_posted(row, UsedColMap, 1)
    ELSE SomeDate(DE_DEFAULT_POSTED_DATE)

\* the title, description and skills a record resolves to
ResolvedText(row) ==
    IF source = "huggingface"
    THEN [title |-> opt_str(get(row, "job_title")), desc |-> NoneStr,
          skills |-> hf_skills_list(get(row, "job_skills"))]
    ELSE li_text_loop(row, UsedColMap, 1,
                      [title |-> NoneStr, desc |-> NoneStr, skills |-> NoneList])

PassesRecency(row) ==
    LET d == ResolvedPostedDate(row) IN d.some /\ d.v >= CUTOFF_DATE

PassesDomain(row) ==
    LET t == ResolvedText(row)
    IN  data_domain_only(t.title, t.desc, t.skills,
                         IF source = "huggingface"
                         THEN opt_str(get(row, "job_title_short")) ELSE NoneStr)

\* the positions, in order, of the consumed records that pass both filters
RECURSIVE AcceptedUpTo(_)
AcceptedUpTo(n) ==
    IF n = 0 THEN <<>>
    ELSE AcceptedUpTo(n - 1)
             \o (IF PassesRecency(dataset[n]) /\ PassesDomain(dataset[n])
                 THEN <<n>> ELSE <<>>)

\* C3: for the Hugging Face and the LinkedIn-skills reader, after any
\* sequence of input records the rows in the batches are exactly the
\* consumed records whose resolved posted_date passes last_3_years and that
\* pass data_domain_only, in input order: no rejected record is in a batch,
\* and once the reader is exhausted every accepted record is in a yielded
\* batch.
C3_FilteringIsAGate ==
    source \in {"huggingface", "linkedin_skills"} =>
        LET emitted == Flatten(yielded) \o batch
            want == AcceptedUpTo(pos)
        IN  /\ origin = want
            /\ Len(emitted) = Len(want)
            /\ \A k \in 1..Len(want) :
                   /\ emitted[k].job_title = ResolvedText(dataset[want[k]]).title
                   /\ emitted[k].posted_date =
                          SomeStr(isoformat(ResolvedPostedDate(dataset[want[k]]).v))
            /\ pc = "done" => (pos = Len(dataset) /\ Flatten(yielded) = emitted)

\* a finished run that rejected a record between two accepted ones and
\* yielded a final partial batch
C3_Witness ==
    /\ source = "linkedin_skills" /\ pc = "done" /\ batch_size = 2
    /\ origin = <<1, 3>> /\ Len(dataset) = 3
    /\ Len(yielded) = 1 /\ Len(yielded[1]) = 2

\* C4: the recency filter is evaluated before the domain filter and before
\* any other field extraction: a record whose resolved posted_date is older
\* than the cutoff or missing is rejected by the recency filter without the
\* domain filter being evaluated for it.
C4_RecencyBeforeDomain ==
    source \in {"huggingface", "linkedin_skills"} =>
        \A i \in 1..Len(traces) :
            /\ SubSeq(traces[i], 1, 2) = <<"resolve_date", "last_3_years">>
            /\ ~PassesRecency(dataset[i]) =>
                   /\ traces[i] = <<"resolve_date", "last_3_years">>
                   /\ i \notin Range(origin)

\* a consumed record that is both too old and off the domain
C4_Witness ==
    /\ source = "huggingface"
    /\ \E i \in 1..Len(traces) :
           /\ ~PassesRecency(dataset[i]) /\ ~PassesDomain(dataset[i])
           /\ ResolvedPostedDate(dataset[i]).some
           /\ traces[i] = <<"resolve_date", "last_3_years">>

-----------------------------------------------------------------------------
(* Bounds and input samples of the column-map specification *)

\* a CSV header holds at most this many columns
MaxCols == 3

DEColumnPool ==
    {"Job_details", "Job Title", "title", "Title-Clean", "Salary.2", "Salary",
     "Company_info", "company"}

LIColumnPool ==
    {"job_title", "title_clean", "company", "company_name", "first_seen_date",
     "job_skills"}

\* the value a sample row holds under column c
ValueUnder(c) == "etl " \o c

\* a row whose cells name their column; the cell under cols[blank] is empty
RowOf(cols, blank) ==
    [c \in Range(cols) |-> IF blank > 0 /\ cols[blank] = c THEN CellNaN
                           ELSE CellStr(ValueUnder(c))]

-----------------------------------------------------------------------------
(* The column-map specification: a Kaggle reader is iterated over a CSV     *)
(* with an arbitrary header and one record.                                 *)

InitColumns ==
    /\ now = Ordinal(2026, 3, 1)
    /\ importedAt = now
    /\ CUTOFF_DATE = ComputeCutoff(now)
    /\ call = NoCall
    /\ \/ \E cols \in DistinctSeqsUpTo(DEColumnPool, MaxCols) \ {<<>>} :
              \E blank \in 0..Len(cols) :
                  ReaderCalled("data_engineer", cols, <<RowOf(cols, blank)>>, 1)
       \/ \E cols \in DistinctSeqsUpTo(LIColumnPool, MaxCols) \ {<<>>} :
              \E blank \in 0..Len(cols) :
                  ReaderCalled("linkedin_skills", cols, <<RowOf(cols, blank)>>, 1)

NextColumns == ReaderStart \/ LIStep \/ DEStep \/ ReaderFinish

SpecColumns == InitColumns /\ [][NextColumns]_vars

-----------------------------------------------------------------------------
(* Claims about the column maps *)

\* column c is a generic substring candidate for slot
IsSubstringCandidate(c, slot) ==
    LET n == norm_col(c)
    IN  \/ slot = "job_title" /\ contains("title", n)
        \/ slot = "job_description" /\ (contains("description", n) \/ contains("desc", n))
        \/ slot = "location" /\ (contains("location", n) \/ contains("loc", n))
        \/ slot = "company_name" /\ contains("company", n)
        \/ slot = "salary_info" /\ contains("salary", n)

\* the columns the map assigns to slot, in map order
ColumnsFor(cmap, slot) ==
    LET IsSlot(e) == e.canon = slot IN SelectSeq(cmap, IsSlot)

\* the text a cell contributes to a row, None when blank
CellText(v) == IF isna(v) \/ strip(v.s) = "" THEN NoneStr ELSE SomeStr(strip(v.s))

\* the emitted value of a slot
EmittedField(r, slot) ==
    IF slot = "job_title" THEN r.job_title
    ELSE IF slot = "job_description" THEN r.job_description
    ELSE IF slot = "company_name" THEN r.company_name
    ELSE IF slot = "location" THEN r.location
    ELSE r.salary_info

\* the row field an exact-table canonical name feeds
SlotOf(canon) ==
    IF canon \in {"location_city", "location_state", "location_country"} THEN "location"
    ELSE IF canon \in {"salary_avg", "salary_currency"} THEN "salary_info"
    ELSE canon

ExactColumns == {EXACT_COLUMN_MAP[k].col : k \in 1..Len(EXACT_COLUMN_MAP)}

\* the texts of the exact-table columns of the header that feed slot, in
\* exact-table order
ExactTexts(r, slot) ==
    LET Feeds(e) == e.col \in Range(columns) /\ SlotOf(e.canon) = slot
                    /\ CellText(r[e.col]).some
        es == SelectSeq(EXACT_COLUMN_MAP, Feeds)
    IN  [k \in 1..Len(es) |-> CellText(r[es[k].col]).v]

\* the value of slot when only the exact table's columns are applied
ExactValue(r, slot) ==
    IF ExactTexts(r, slot) = <<>> THEN NoneStr
    ELSE SomeStr(join(IF slot = "location" THEN ", " ELSE " ", ExactTexts(r, slot)))

\* C5: in the Kaggle Data Engineer reader, when one observed column is
\* matched by the exact lookup table and another observed column is a
\* generic substring candidate for the same canonical slot, the substring
\* candidate is not in the final column map and the value of the slot in
\* the emitted row is the one the exact table's columns give.
C5_ExactMapWins ==
    (source = "data_engineer" /\ col_map.set) =>
        \A k \in 1..Len(EXACT_COLUMN_MAP) :
            LET e == EXACT_COLUMN_MAP[k]
                slot == SlotOf(e.canon)
            IN  e.col \in Range(columns) =>
                    \A c \in Range(columns) \ ExactColumns :
                        IsSubstringCandidate(c, slot) =>
                            /\ ~has_key(col_map.m, c)
                            /\ \A i \in 1..Len(origin) :
                                   EmittedField((Flatten(yielded) \o batch)[i], slot)
                                       = ExactValue(dataset[origin[i]], slot)

\* C6: exact and inferred layouts are mutually exclusive per input: when
\* the exact-match table yields at least one mapping for the observed
\* columns, the column map used for the run holds only exact-table
\* assignments.
C6_ExactExcludesInference ==
    ( /\ source = "data_engineer" /\ col_map.set
      /\ \E k \in 1..Len(EXACT_COLUMN_MAP) : EXACT_COLUMN_MAP[k].col \in Range(columns) )
    => Range(col_map.m) \subseteq Range(EXACT_COLUMN_MAP)

\* C7: in every column map built by normalized-name lookup, substring
\* fallback or LinkedIn-skills inference, each canonical field is assigned
\* to at most one source column, and the value emitted for job_title or
\* company_name comes from the first column in column order that a map
\* entry assigns to that field.
C7_FirstMatchPerSlot ==
    col_map.set =>
        /\ \A i, k \in 1..Len(col_map.m) :
               i # k => col_map.m[i].canon # col_map.m[k].canon
        /\ \A slot \in {"job_title", "company_name"} :
               \A r \in Range(Flatten(yielded) \o batch) :
                   ColumnsFor(col_map.m, slot) # <<>> =>
                       LET first == CHOOSE i \in 1..Len(columns) :
                                        /\ has_key(ColumnsFor(col_map.m, slot), columns[i])
                                        /\ \A h \in 1..(i - 1) :
                                               ~has_key(ColumnsFor(col_map.m, slot), columns[h])
                       IN  source = "data_engineer" =>
                               EmittedField(r, slot) = CellText(dataset[1][columns[first]])

-----------------------------------------------------------------------------
(* config.py: the skill taxonomy *)

DATA_ENGINEER_SKILLS ==
    <<"apache spark", "apache kafka", "apache airflow", "google cloud",
      "google cloud platform", "machine learning", "data pipeline", "data warehouse",
      "data lake", "data modeling", "etl", "elt", "python", "sql", "spark", "pyspark",
      "kafka", "airflow", "aws", "gcp", "azure", "snowflake", "redshift", "bigquery",
      "databricks", "dbt", "terraform", "docker", "kubernetes", "k8s", "java", "scala",
      "pandas", "numpy", "tableau", "looker", "power bi", "dbt core", "fivetran",
      "talend", "informatica", "postgresql", "postgres", "mysql", "mongodb", "redis",
      "elasticsearch", "hadoop", "hive", "presto", "trino", "beam", "dataflow",
      "cloud storage", "pub/sub", "bigtable", "firestore", "dataform", "dbt cloud",
      "great expectations", "dagster", "prefect">>

Alias(key, value) == [key |-> key, value |-> value]

DATA_ENGINEER_SKILL_ALIASES ==
    <<Alias("pyspark", "Spark"), Alias("apache spark", "Spark"), Alias("spark", "Spark"),
      Alias("apache kafka", "Kafka"), Alias("kafka", "Kafka"),
      Alias("apache airflow", "Airflow"), Alias("airflow", "Airflow"),
      Alias("google cloud", "GCP"), Alias("google cloud platform", "GCP"),
      Alias("gcp", "GCP"), Alias("aws", "AWS"), Alias("azure", "Azure"),
      Alias("snowflake", "Snowflake"), Alias("redshift", "Redshift"),
      Alias("bigquery", "BigQuery"), Alias("databricks", "Databricks"),
      Alias("dbt", "dbt"), Alias("dbt core", "dbt"), Alias("dbt cloud", "dbt"),
      Alias("terraform", "Terraform"), Alias("docker", "Docker"),
      Alias("kubernetes", "Kubernetes"), Alias("k8s", "Kubernetes"),
      Alias("python", "Python"), Alias("sql", "SQL"), Alias("java", "Java"),
      Alias("scala", "Scala"), Alias("etl", "ETL"), Alias("elt", "ELT"),
      Alias("machine learning", "Machine Learning"),
      Alias("data pipeline", "Data Pipeline"),
      Alias("data warehouse", "Data Warehouse"), Alias("data lake", "Data Lake"),
      Alias("data modeling", "Data Modeling"), Alias("pandas", "Pandas"),
      Alias("numpy", "NumPy"), Alias("tableau", "Tableau"), Alias("looker", "Looker"),
      Alias("power bi", "Power BI"), Alias("postgresql", "PostgreSQL"),
      Alias("postgres", "PostgreSQL"), Alias("mysql", "MySQL"),
      Alias("mongodb", "MongoDB"), Alias("redis", "Redis"),
      Alias("elasticsearch", "Elasticsearch"), Alias("hadoop", "Hadoop"),
      Alias("hive", "Hive"), Alias("presto", "Presto"), Alias("trino", "Trino"),
      Alias("beam", "Beam"), Alias("dataflow", "Dataflow"),
      Alias("fivetran", "Fivetran"), Alias("talend", "Talend"),
      Alias("informatica", "Informatica"),
      Alias("great expectations", "Great Expectations"), Alias("dagster", "Dagster"),
      Alias("prefect", "Prefect")>>

-----------------------------------------------------------------------------
(* More Python str operations: code-point order, title() *)

\* the printable ASCII characters in code-point order: " " (32) to "_" (95),
\* and "a" (97) to "~" (126)
ASCII_32_95 == " !\"#$%&'()*+,-./" \o DIGITS \o ":;<=>?@" \o UPPERCASE \o "[\\]^_"
ASCII_97_126 == LOWERCASE \o "{|}~"

\* ord(c); the control characters sort below the printable ones
ord(c) ==
    IF \E i \in 1..Len(ASCII_32_95) : Char(ASCII_32_95, i) = c
    THEN 31 + (CHOOSE i \in 1..Len(ASCII_32_95) : Char(ASCII_32_95, i) = c)
    ELSE IF \E i \in 1..Len(ASCII_97_126) : Char(ASCII_97_126, i) = c
    THEN 96 + (CHOOSE i \in 1..Len(ASCII_97_126) : Char(ASCII_97_126, i) = c)
    ELSE IF c = "\t" THEN 9 ELSE IF c = "\n" THEN 10 ELSE 13

\* a < b on str: lexicographic by code point
RECURSIVE str_less(_, _)
str_less(a, b) ==
    IF b = "" THEN FALSE
    ELSE IF a = "" THEN TRUE
    ELSE IF Head(a) = Head(b) THEN str_less(Tail(a), Tail(b))
    ELSE ord(Head(a)) < ord(Head(b))

\* sorted(found) for a set of str
RECURSIVE sorted(_)
sorted(found) ==
    IF found = {} THEN <<>>
    ELSE LET least == CHOOSE x \in found : \A y \in found \ {x} : str_less(x, y)
         IN  <<least>> \o sorted(found \ {least})

\* s.title(): a letter is uppercased after an uncased character, lowercased
\* after a cased one
RECURSIVE title_from(_, _)
title_from(s, after_cased) ==
    IF s = "" THEN ""
    ELSE LET c == Head(s)
         IN  IF c \in UpperSet \cup LowerSet
             THEN (IF after_cased THEN lower_char(c) ELSE upper_char(c))
                  \o title_from(Tail(s), TRUE)
             ELSE c \o title_from(Tail(s), FALSE)

title(s) == title_from(s, FALSE)

-----------------------------------------------------------------------------
(* skills_extraction.py: the taxonomy extractor *)

\* \w of the re module
is_word_char(c) == c \in UpperSet \cup LowerSet \cup DigitSet \cup {"_"}

\* \b at the position after the first p characters of text
word_boundary(text, p) ==
    LET before == p >= 1 /\ is_word_char(Char(text, p))
        after == p < Len(text) /\ is_word_char(Char(text, p + 1))
    IN  before # after

\* re.compile(rf"\b{escaped}\b", re.IGNORECASE): the literal between two \b
make_pattern(skill) == [literal |-> skill, ignorecase |-> TRUE]

\* a search that ignores the word boundaries
pattern_search_unanchored(pattern, text) ==
    LET lit == lower(pattern.literal)
        t == lower(text)
    IN  \E i \in 0..(Len(t) - Len(lit)) : SubSeq(t, i + 1, i + Len(lit)) = lit

\* pattern.search(text) is not None
pattern_search(pattern, text) ==
    LET lit == IF pattern.ignorecase THEN lower(pattern.literal) ELSE pattern.literal
        t == IF pattern.ignorecase THEN lower(text) ELSE text
    IN  \E i \in 0..(Len(t) - Len(lit)) :
            /\ SubSeq(t, i + 1, i + Len(lit)) = lit
            /\ word_boundary(text, i)
            /\ word_boundary(text, i + Len(lit))

\* DATA_ENGINEER_SKILL_ALIASES.get(key, default)
alias_get(key, default) ==
    IF \E i \in 1..Len(DATA_ENGINEER_SKILL_ALIASES) :
           DATA_ENGINEER_SKILL_ALIASES[i].key = key
    THEN DATA_ENGINEER_SKILL_ALIASES[
             CHOOSE i \in 1..Len(DATA_ENGINEER_SKILL_ALIASES) :
                 DATA_ENGINEER_SKILL_ALIASES[i].key = key].value
    ELSE default

\* _SKILL_PATTERNS, built at import in taxonomy order
SKILL_PATTERNS ==
    [i \in 1..Len(DATA_ENGINEER_SKILLS) |->
        [pattern |-> make_pattern(DATA_ENGINEER_SKILLS[i]),
         canonical |-> alias_get(lower(DATA_ENGINEER_SKILLS[i]),
                                 title(DATA_ENGINEER_SKILLS[i]))]]

\* text_parts of extract_skills_taxonomy
text_parts(title_arg, description) ==
    (IF TruthyStr(title_arg) /\ strip(title_arg.v) # "" THEN <<strip(title_arg.v)>>
     ELSE <<>>)
    \o (IF TruthyStr(description) /\ strip(description.v) # ""
        THEN <<strip(description.v)>> ELSE <<>>)

\* the loop over _SKILL_PATTERNS: found after every pattern was searched
taxonomy_loop(text) ==
    {SKILL_PATTERNS[k].canonical :
        k \in {h \in 1..Len(SKILL_PATTERNS) :
                  pattern_search(SKILL_PATTERNS[h].pattern, text)}}

extract_skills_taxonomy(title_arg, description) ==
    LET parts == text_parts(title_arg, description)
    IN  IF parts = <<>> THEN <<>>
        ELSE sorted(taxonomy_loop(lower(join(" ", parts))))

-----------------------------------------------------------------------------
(* json.loads, str() and repr() on the JSON values of the sampled responses: *)
(* arrays, objects, strings with the escapes \" \\ \/ \n \t \r, integers,    *)
(* true, false and null.                                                     *)

JNull == [t |-> "null", s |-> "", n |-> 0, items |-> <<>>]
JBool(b) == [t |-> "bool", s |-> "", n |-> IF b THEN 1 ELSE 0, items |-> <<>>]
JInt(n) == [t |-> "int", s |-> "", n |-> n, items |-> <<>>]
JStr(s) == [t |-> "str", s |-> s, n |-> 0, items |-> <<>>]
JList(items) == [t |-> "list", s |-> "", n |-> 0, items |-> items]
JPair(key, v) == [t |-> "pair", s |-> key, n |-> 0, items |-> <<v>>]
JDict(pairs) == [t |-> "dict", s |-> "", n |-> 0, items |-> pairs]

\* the outcome of scanning one value: the value and the position after it
Parsed(v, next) == [ok |-> TRUE, exc |-> "", v |-> v, next |-> next]

\* the scanner raises json.JSONDecodeError
ParseError == [ok |-> FALSE, exc |-> "JSONDecodeError", v |-> JNull, next |-> 0]

\* int() refuses the digits of an integer literal: ValueError, which is not
\* a JSONDecodeError
IntError == [ok |-> FALSE, exc |-> "ValueError", v |-> JNull, next |-> 0]

\* sys.int_info.default_max_str_digits: int() of a longer literal raises
INT_MAX_STR_DIGITS == 4300

\* the element of a one-element set: Once({f(x) : x \in {e}}) is f(e) with e
\* evaluated a single time
Once(S) == CHOOSE v \in S : TRUE

JSON_WHITESPACE == {" ", "\t", "\n", "\r"}
CONTROL_CHARS == {"\t", "\n", "\r"}

\* the first position from i on that holds no JSON whitespace
skip_ws(s, i) ==
    CHOOSE j \in i..(Len(s) + 1) :
        /\ \A h \in i..(j - 1) : Char(s, h) \in JSON_WHITESPACE
        /\ j = Len(s) + 1 \/ Char(s, j) \notin JSON_WHITESPACE

\* s[i:].startswith(lit)
has_at(s, i, lit) ==
    i + Len(lit) - 1 <= Len(s) /\ SubSeq(s, i, i + Len(lit) - 1) = lit

\* the first position from i on that holds a character of cs, 0 if none
find_first(s, i, cs) ==
    IF \E q \in i..Len(s) : Char(s, q) \in cs
    THEN CHOOSE q \in i..Len(s) :
             /\ Char(s, q) \in cs
             /\ \A h \in i..(q - 1) : Char(s, h) \notin cs
    ELSE 0

\* the position of the quote that closes a string whose content starts at j
RECURSIVE string_end(_, _)
string_end(s, j) ==
    LET q == find_first(s, j, {"\"", "\\"})
    IN  IF q = 0 THEN 0
        ELSE IF Char(s, q) = "\"" THEN q
        ELSE IF q + 1 > Len(s) THEN 0
        ELSE string_end(s, q + 2)

unescape_char(e) ==
    IF e = "n" THEN "\n" ELSE IF e = "t" THEN "\t" ELSE IF e = "r" THEN "\r" ELSE e

\* the text of a string literal's content; not ok on a raw control character
\* or an escape that is not one of the above
RECURSIVE unescape(_)
unescape(b) ==
    LET q == find_first(b, 1, {"\\"})
        pre == IF q = 0 THEN b ELSE SubSeq(b, 1, q - 1)
        with(rest) ==
            IF rest.ok
            THEN [ok |-> TRUE, v |-> pre \o unescape_char(Char(b, q + 1)) \o rest.v]
            ELSE rest
    IN  IF \E h \in 1..Len(pre) : Char(pre, h) \in CONTROL_CHARS
        THEN [ok |-> FALSE, v |-> ""]
        ELSE IF q = 0 THEN [ok |-> TRUE, v |-> b]
        ELSE IF Char(b, q + 1) \notin {"\"", "\\", "/", "n", "t", "r"}
        THEN [ok |-> FALSE, v |-> ""]
        ELSE Once({with(rest) : rest \in {unescape(SubSeq(b, q + 2, Len(b)))}})

\* a string literal whose opening quote is at i
json_string(s, i) ==
    LET e == string_end(s, i + 1)
        closed(u) == IF u.ok THEN Parsed(JStr(u.v), e + 1) ELSE ParseError
    IN  IF e = 0 THEN ParseError
        ELSE Once({closed(u) : u \in {unescape(SubSeq(s, i + 1, e - 1))}})

\* an integer literal at i
json_number(s, i) ==
    LET neg == Char(s, i) = "-"
        d == IF neg THEN i + 1 ELSE i
    IN  IF d > Len(s) \/ Char(s, d) \notin DigitSet THEN ParseError
        ELSE LET others == {h \in d..Len(s) : Char(s, h) \notin DigitSet}
                 e == IF Char(s, d) = "0" THEN d
                      ELSE IF others = {} THEN Len(s)
                      ELSE (CHOOSE h \in others : \A g \in others : h <= g) - 1
                 n == int_of(SubSeq(s, d, e))
             IN  IF e < Len(s) /\ Char(s, e + 1) \in {".", "e", "E"} THEN ParseError
                 ELSE IF e - d + 1 > INT_MAX_STR_DIGITS THEN IntError
                 ELSE Parsed(JInt(IF neg THEN 0 - n ELSE n), e + 1)

RECURSIVE json_value(_, _)
RECURSIVE json_elements(_, _, _)
RECURSIVE json_members(_, _, _)

\* the elements of an array from position i on, acc holding the earlier ones
json_elements(s, i, acc) ==
    LET after(r) ==
            IF ~r.ok THEN r
            ELSE LET j == skip_ws(s, r.next)
                 IN  IF j > Len(s) THEN ParseError
                     ELSE IF Char(s, j) = ","
                     THEN json_elements(s, j + 1, Append(acc, r.v))
                     ELSE IF Char(s, j) = "]"
                     THEN Parsed(JList(Append(acc, r.v)), j + 1)
                     ELSE ParseError
    IN  Once({after(r) : r \in {json_value(s, i)}})

\* the members of an object from position i on, acc holding the earlier ones
json_members(s, i, acc) ==
    LET k == skip_ws(s, i)
        after(key, r) ==
            IF ~r.ok THEN r
            ELSE LET j == skip_ws(s, r.next)
                 IN  IF j > Len(s) THEN ParseError
                     ELSE IF Char(s, j) = ","
                     THEN json_members(s, j + 1, Append(acc, JPair(key.v.s, r.v)))
                     ELSE IF Char(s, j) = "}"
                     THEN Parsed(JDict(Append(acc, JPair(key.v.s, r.v))), j + 1)
                     ELSE ParseError
        colon(key) ==
            IF ~key.ok THEN key
            ELSE LET c == skip_ws(s, key.next)
                 IN  IF c > Len(s) \/ Char(s, c) # ":" THEN ParseError
                     ELSE Once({after(key, r) : r \in {json_value(s, c + 1)}})
    IN  IF k > Len(s) \/ Char(s, k) # "\"" THEN ParseError
        ELSE Once({colon(key) : key \in {json_string(s, k)}})

\* the value that starts at or after position i0
json_value(s, i0) ==
    LET i == skip_ws(s, i0)
    IN  IF i > Len(s) THEN ParseError
        ELSE IF Char(s, i) = "["
        THEN LET j == skip_ws(s, i + 1)
             IN  IF j <= Len(s) /\ Char(s, j) = "]" THEN Parsed(JList(<<>>), j + 1)
                 ELSE json_elements(s, i + 1, <<>>)
        ELSE IF Char(s, i) = "{"
        THEN LET j == skip_ws(s, i + 1)
             IN  IF j <= Len(s) /\ Char(s, j) = "}" THEN Parsed(JDict(<<>>), j + 1)
                 ELSE json_members(s, i + 1, <<>>)
        ELSE IF Char(s, i) = "\"" THEN json_string(s, i)
        ELSE IF has_at(s, i, "null") THEN Parsed(JNull, i + 4)
        ELSE IF has_at(s, i, "true") THEN Parsed(JBool(TRUE), i + 4)
        ELSE IF has_at(s, i, "false") THEN Parsed(JBool(FALSE), i + 5)
        ELSE IF Char(s, i) \in DigitSet \cup {"-"} THEN json_number(s, i)
        ELSE ParseError

\* json.loads(s): the value, or raised with the class of the exception
json_loads(s) ==
    LET whole(r) ==
            IF ~r.ok THEN [raised |-> TRUE, exc |-> r.exc, v |-> JNull]
            ELSE IF skip_ws(s, r.next) <= Len(s)
            THEN [raised |-> TRUE, exc |-> "JSONDecodeError", v |-> JNull]
            ELSE [raised |-> FALSE, exc |-> "", v |-> r.v]
    IN  Once({whole(r) : r \in {json_value(s, 1)}})

\* repr(x) of a decoded value
RECURSIVE py_repr(_)
py_repr(x) ==
    IF x.t = "null" THEN "None"
    ELSE IF x.t = "bool" THEN (IF x.n = 1 THEN "True" ELSE "False")
    ELSE IF x.t = "int" THEN (IF x.n < 0 THEN "-" \o str_of_nat(0 - x.n) ELSE str_of_nat(x.n))
    ELSE IF x.t = "str"
    THEN (IF contains("'", x.s) /\ ~contains("\"", x.s) THEN "\"" \o x.s \o "\""
          ELSE "'" \o x.s \o "'")
    ELSE IF x.t = "list"
    THEN "[" \o join(", ", [k \in 1..Len(x.items) |-> py_repr(x.items[k])]) \o "]"
    ELSE "{" \o join(", ", [k \in 1..Len(x.items) |->
                               py_repr(JStr(x.items[k].s)) \o ": "
                               \o py_repr(x.items[k].items[1])]) \o "}"

\* str(x) of a decoded value
py_str(x) == IF x.t = "str" THEN x.s ELSE py_repr(x)

\* bool(x) of a decoded value
truthy(x) ==
    IF x.t = "null" THEN FALSE
    ELSE IF x.t \in {"bool", "int"} THEN x.n # 0
    ELSE IF x.t = "str" THEN x.s # ""
    ELSE x.items # <<>>

-----------------------------------------------------------------------------
(* skills_extraction.py: the batch LLM extractor *)

\* the code fence of a Markdown block; the backquote (U+0060) is written ~
\* in the strings of this module
FENCE == "~~~"

\* [str(x).strip() for x in items if x and str(x).strip()]
clean_skills(items) ==
    LET Keep(x) == truthy(x) /\ strip(py_str(x)) # ""
        kept == SelectSeq(items, Keep)
    IN  [k \in 1..Len(kept) |-> strip(py_str(kept[k]))]

\* the removal of a leading code fence
strip_fence(raw) ==
    IF startswith(raw, FENCE)
    THEN LET lines == split(raw, "\n")
         IN  join("\n", IF strip(lines[Len(lines)]) = FENCE
                        THEN SubSeq(lines, 2, Len(lines) - 1)
                        ELSE Tail(lines))
    ELSE raw

\* [[] for _ in batch]
empty_lists(jobs) == [k \in 1..Len(jobs) |-> <<>>]

\* x[:n]
prefix(x, n) == IF Len(x) <= n THEN x ELSE SubSeq(x, 1, n)

\* (x or '').strip()
stripped(x) == strip(IF TruthyStr(x) THEN x.v ELSE "")

\* y or '(none)'
or_placeholder(y) == IF y = "" THEN "(none)" ELSE y

\* the description is cut to this many characters in the batch prompt
DESCRIPTION_LIMIT == 2000

\* the numbered sections of the prompt for one batch
numbered(jobs) ==
    join("\n\n---\n\n",
         [j \in 1..Len(jobs) |->
             "Job " \o str_of_nat(j) \o ".\nTitle: "
             \o or_placeholder(stripped(jobs[j].title))
             \o "\nDescription:\n"
             \o or_placeholder(prefix(stripped(jobs[j].description), DESCRIPTION_LIMIT))])

\* a try block that gives up the whole batch on an entry that is not a list
llm_batch_loaded_all_or_nothing(jobs, loaded) ==
    IF loaded.raised THEN [raised |-> TRUE, appended |-> <<>>]
    ELSE IF /\ loaded.v.t = "list" /\ Len(loaded.v.items) >= Len(jobs)
            /\ \A k \in 1..Len(jobs) : loaded.v.items[k].t = "list"
    THEN [raised |-> FALSE,
          appended |-> [k \in 1..Len(jobs) |-> clean_skills(loaded.v.items[k].items)]]
    ELSE [raised |-> FALSE, appended |-> empty_lists(jobs)]

\* a try block without the length check: arr[k] raises IndexError past the
\* end of a short array, after the earlier entries were appended
llm_batch_loaded_index_error(jobs, loaded) ==
    IF loaded.raised THEN [raised |-> TRUE, appended |-> <<>>]
    ELSE IF loaded.v.t = "list"
    THEN [raised |-> Len(loaded.v.items) < Len(jobs),
          appended |-> [k \in 1..(IF Len(loaded.v.items) < Len(jobs)
                                  THEN Len(loaded.v.items) ELSE Len(jobs)) |->
                           IF loaded.v.items[k].t = "list"
                           THEN clean_skills(loaded.v.items[k].items)
                           ELSE <<>>]]
    ELSE [raised |-> FALSE, appended |-> empty_lists(jobs)]

\* a try block that uses the entries a short array does hold
llm_batch_loaded_partial(jobs, loaded) ==
    IF loaded.raised THEN [raised |-> TRUE, appended |-> <<>>]
    ELSE IF loaded.v.t = "list"
    THEN [raised |-> FALSE,
          appended |-> [k \in 1..Len(jobs) |->
                           IF k <= Len(loaded.v.items) /\ loaded.v.items[k].t = "list"
                           THEN clean_skills(loaded.v.items[k].items)
                           ELSE <<>>]]
    ELSE [raised |-> FALSE, appended |-> empty_lists(jobs)]

\* the try block after json.loads returned or raised
llm_batch_loaded(jobs, loaded) ==
    IF loaded.raised THEN [raised |-> TRUE, appended |-> <<>>]
    ELSE IF loaded.v.t = "list" /\ Len(loaded.v.items) >= Len(jobs)
    THEN [raised |-> FALSE,
          appended |-> [k \in 1..Len(jobs) |->
                           IF k <= Len(loaded.v.items) /\ loaded.v.items[k].t = "list"
                           THEN clean_skills(loaded.v.items[k].items)
                           ELSE <<>>]]
    ELSE [raised |-> FALSE, appended |-> empty_lists(jobs)]

\* the try block for one batch: the lists it appended to results, and
\* whether an exception left it
llm_batch_try(jobs, reply) ==
    IF reply.kind = "raise" THEN [raised |-> TRUE, appended |-> <<>>]
    ELSE IF reply.kind = "none" \/ reply.text = ""
    THEN [raised |-> FALSE, appended |-> empty_lists(jobs)]
    ELSE Once({llm_batch_loaded(jobs, loaded) :
                  loaded \in {json_loads(raw) : raw \in {strip_fence(strip(reply.text))}}})

\* one iteration without the except clause: the exception propagates
llm_batch_chunk_no_except(jobs, reply) ==
    llm_batch_try(jobs, reply)

\* one iteration of the loop: try, and on an exception extend by empty lists
llm_batch_chunk(jobs, reply) ==
    LET handled(r) ==
            IF r.raised
            THEN [raised |-> FALSE, appended |-> r.appended \o empty_lists(jobs)]
            ELSE r
    IN  Once({handled(r) : r \in {llm_batch_try(jobs, reply)}})

\* x or y on Optional[str]
or_else(x, y) == IF TruthyStr(x) THEN x ELSE y

\* a resolution that falls back on a built-in key
resolve_api_key_default(api_key, environ) ==
    or_else(or_else(or_else(api_key, environ.GOOGLE_API_KEY), environ.GEMINI_API_KEY),
            SomeStr("k-default"))

\* api_key or os.environ.get("GOOGLE_API_KEY") or os.environ.get("GEMINI_API_KEY")
resolve_api_key(api_key, environ) ==
    or_else(or_else(api_key, environ.GOOGLE_API_KEY), environ.GEMINI_API_KEY)

\* a call of extract_skills_llm_batch and its locals
LlmBatchCall(rows, size, key, environ) ==
    [op |-> "extract_skills_llm_batch", done |-> FALSE, pc |-> "start", rows |-> rows,
     batch_size |-> size, api_key_arg |-> key, api_key |-> key, environ |-> environ,
     i |-> 0,
     results |-> <<>>, prompts |-> <<>>, replies |-> <<>>]

\* rows[i : i + batch_size]
Slice(rows, i, size) ==
    SubSeq(rows, i + 1, IF i + size <= Len(rows) THEN i + size ELSE Len(rows))

\* the api_key resolution and check
LlmBatchStart ==
    /\ call.op = "extract_skills_llm_batch" /\ call.pc = "start"
    /\ \E key \in {resolve_api_key(call.api_key, call.environ)} :
           call' = IF TruthyStr(key)
                   THEN [call EXCEPT !.pc = "loop", !.api_key = key]
                   ELSE [call EXCEPT !.pc = "returned", !.done = TRUE, !.api_key = key,
                                     !.results = empty_lists(call.rows)]
    /\ UNCHANGED <<clockVars, readerVars>>

\* an iteration that gives up on an exception: the rows left get empty lists
\* and the loop ends
LlmBatchIteration_abort(reply) ==
    /\ call.op = "extract_skills_llm_batch" /\ call.pc = "loop"
    /\ call.i < Len(call.rows)
    /\ \E chunk \in {Slice(call.rows, call.i, call.batch_size)} :
         \E r \in {llm_batch_try(chunk, reply)} :
           call' = [call EXCEPT !.i = IF r.raised THEN Len(call.rows)
                                      ELSE call.i + call.batch_size,
                                !.results = IF r.raised
                                            THEN call.results \o
                                                 [k \in 1..(Len(call.rows) - call.i) |-> <<>>]
                                            ELSE call.results \o r.appended,
                                !.prompts = Append(call.prompts, numbered(chunk)),
                                !.replies = Append(call.replies, reply)]
    /\ UNCHANGED <<clockVars, readerVars>>

\* one iteration of the loop over range(0, len(rows), batch_size), the model
\* answering the prompt with reply
LlmBatchIteration(reply) ==
    /\ call.op = "extract_skills_llm_batch" /\ call.pc = "loop"
    /\ call.i < Len(call.rows)
    /\ \E chunk \in {Slice(call.rows, call.i, call.batch_size)} :
         \E r \in {llm_batch_chunk(chunk, reply)} :
           call' = [call EXCEPT !.pc = IF r.raised THEN "raised" ELSE "loop",
                                !.i = call.i + call.batch_size,
                                !.results = call.results \o r.appended,
                                !.prompts = Append(call.prompts, numbered(chunk)),
                                !.replies = Append(call.replies, reply)]
    /\ UNCHANGED <<clockVars, readerVars>>

\* return results
LlmBatchReturn ==
    /\ call.op = "extract_skills_llm_batch" /\ call.pc = "loop"
    /\ call.i >= Len(call.rows)
    /\ call' = [call EXCEPT !.pc = "returned", !.done = TRUE]
    /\ UNCHANGED <<clockVars, readerVars>>

-----------------------------------------------------------------------------
(* skills_extraction.py: the single-record LLM extractor *)

\* the outcome of a function: the list it returns, or the class of the
\* exception it raises
Returned(v) == [raised |-> FALSE, exc |-> "", v |-> v]
Raised(exc) == [raised |-> TRUE, exc |-> exc, v |-> <<>>]

\* the try block of _parse_skills_json
parse_skills_json_try(s) ==
    LET decoded(loaded) ==
            IF loaded.raised THEN Raised(loaded.exc)
            ELSE IF loaded.v.t = "list" THEN Returned(clean_skills(loaded.v.items))
            ELSE Returned(<<>>)
    IN  Once({decoded(loaded) : loaded \in {json_loads(s)}})

\* _parse_skills_json; its fence removal (lines 68-70) is the code of
\* strip_fence, and its except clause names json.JSONDecodeError alone
parse_skills_json(raw) ==
    LET handled(r) == IF r.raised /\ r.exc = "JSONDecodeError" THEN Returned(<<>>) ELSE r
    IN  IF strip(raw) = "" THEN Returned(<<>>)
        ELSE Once({handled(r) : r \in {parse_skills_json_try(strip_fence(strip(raw)))}})

\* y or "(not provided)"
or_not_provided(y) == IF y = "" THEN "(not provided)" ELSE y

\* the description is cut to this many characters in the single prompt
SINGLE_DESCRIPTION_LIMIT == 8000

\* the part of _SKILLS_EXTRACT_PROMPT that depends on the record
single_prompt(job_title, job_description) ==
    "Job title: " \o or_not_provided(stripped(job_title))
    \o "\n\nJob description:\n"
    \o prefix(or_not_provided(stripped(job_description)), SINGLE_DESCRIPTION_LIMIT)

\* the try block of extract_skills_llm, the model answering with reply
llm_single_try(reply) ==
    IF reply.kind = "raise" THEN Raised("Exception")
    ELSE IF reply.kind = "none" \/ reply.text = "" THEN Returned(<<>>)
    ELSE parse_skills_json(reply.text)

\* a call of extract_skills_llm and its locals; reply is what the model
\* answers if it is called
LlmSingleCall(row, key, environ, reply) ==
    [op |-> "extract_skills_llm", done |-> FALSE, pc |-> "start",
     title |-> row.title, description |-> row.description,
     api_key_arg |-> key, api_key |-> key, environ |-> environ, reply |-> reply,
     prompts |-> <<>>, result |-> <<>>]

\* the api_key resolution and check (lines 92-95, the expression of line 123)
LlmSingleStart ==
    /\ call.op = "extract_skills_llm" /\ call.pc = "start"
    /\ \E key \in {resolve_api_key(call.api_key, call.environ)} :
           call' = IF TruthyStr(key)
                   THEN [call EXCEPT !.pc = "try", !.api_key = key]
                   ELSE [call EXCEPT !.pc = "returned", !.done = TRUE, !.api_key = key,
                                     !.result = <<>>]
    /\ UNCHANGED <<clockVars, readerVars>>

\* the try block with its except clause: any exception returns []
llm_single(reply) ==
    LET handled(r) == IF r.raised THEN Returned(<<>>) ELSE r
    IN  Once({handled(r) : r \in {llm_single_try(reply)}})

\* the model is called and its response handled
LlmSingleTry ==
    /\ call.op = "extract_skills_llm" /\ call.pc = "try"
    /\ \E r \in {llm_single(call.reply)} :
           call' = [call EXCEPT !.pc = IF r.raised THEN "raised" ELSE "returned",
                                !.done = TRUE,
                                !.prompts = <<single_prompt(call.title, call.description)>>,
                                !.result = r.v]
    /\ UNCHANGED <<clockVars, readerVars>>

\* a call of _parse_skills_json on a response text
ParseCall(raw) ==
    [op |-> "_parse_skills_json", done |-> FALSE, pc |-> "start", raw |-> raw,
     result |-> <<>>]

\* _parse_skills_json runs
CallParseSkillsJson ==
    /\ call.op = "_parse_skills_json" /\ ~call.done
    /\ \E r \in {parse_skills_json(call.raw)} :
           call' = [call EXCEPT !.pc = IF r.raised THEN "raised" ELSE "returned",
                                !.done = TRUE, !.result = r.v]
    /\ UNCHANGED <<clockVars, readerVars>>

-----------------------------------------------------------------------------
(* Bounds and input samples of the taxonomy specification *)

\* a sampled title is made of at most this many words
MaxWords == 2

TaxWords ==
    {"Data", "pipeline", "power", "BI", "javascript", "pub/sub,"}

TaxTitles ==
    {NoneStr, SomeStr("  "), SomeStr("Senior Data Engineer")}
    \cup {SomeStr(join(" ", q)) : q \in SeqsUpTo(TaxWords, MaxWords)}

TaxDescriptions ==
    {NoneStr, SomeStr(""), SomeStr(" \t"),
     SomeStr("Must know Python, SQL, and Apache Spark for our data pipeline"),
     SomeStr("pipeline"), SomeStr("bi tools"),
     SomeStr("Google Cloud Platform and dbt-core; k8s"),
     SomeStr("cloud storage, Firestore/Bigtable, dataform"),
     SomeStr("java-script, sql_server and PySpark (AWS)")}

-----------------------------------------------------------------------------
(* The taxonomy specification: extract_skills_taxonomy is called on one     *)
(* (title, description).                                                    *)

InitTaxonomy ==
    /\ now = Ordinal(2026, 3, 1)
    /\ importedAt = now
    /\ CUTOFF_DATE = ComputeCutoff(now)
    /\ ReaderIdle
    /\ \E t \in TaxTitles, d \in TaxDescriptions :
           call = [NoCall EXCEPT !.op = "extract_skills_taxonomy", !.title = t,
                                 !.description = d, !.result = <<>>]

CallExtractSkillsTaxonomy ==
    /\ call.op = "extract_skills_taxonomy"
    /\ ~call.done
    /\ call' = [call EXCEPT !.done = TRUE,
                            !.result = extract_skills_taxonomy(call.title,
                                                               call.description)]
    /\ UNCHANGED <<clockVars, readerVars>>

NextTaxonomy == CallExtractSkillsTaxonomy

SpecTaxonomy == InitTaxonomy /\ [][NextTaxonomy]_vars

-----------------------------------------------------------------------------
(* Claims about the taxonomy extractor *)

\* the lowercased "title description" text: the parts that are present and
\* not blank, trimmed and joined by one space
TaxText(t, d) ==
    LET tp == IF t.some /\ strip(t.v) # "" THEN <<strip(t.v)>> ELSE <<>>
        dp == IF d.some /\ strip(d.v) # "" THEN <<strip(d.v)>> ELSE <<>>
    IN  lower(join(" ", tp \o dp))

\* phrase occurs in text with no word character next to it on either side
OccursAsWholeWord(phrase, text) ==
    \E i \in 1..Len(text) :
        /\ i + Len(phrase) - 1 <= Len(text)
        /\ SubSeq(text, i, i + Len(phrase) - 1) = phrase
        /\ i > 1 => ~is_word_char(Char(text, i - 1))
        /\ i + Len(phrase) <= Len(text) => ~is_word_char(Char(text, i + Len(phrase)))

\* the title-cased forms of the phrases that have no alias
TitleCased ==
    <<Alias("cloud storage", "Cloud Storage"), Alias("pub/sub", "Pub/Sub"),
      Alias("bigtable", "Bigtable"), Alias("firestore", "Firestore"),
      Alias("dataform", "Dataform")>>

\* the alias of a phrase or, absent an alias, its title-cased form
Canonical(phrase) ==
    LET table == DATA_ENGINEER_SKILL_ALIASES \o TitleCased
    IN  table[CHOOSE i \in 1..Len(table) : table[i].key = phrase].value

ExpectedSkills(t, d) ==
    {Canonical(DATA_ENGINEER_SKILLS[k]) :
        k \in {h \in 1..Len(DATA_ENGINEER_SKILLS) :
                  OccursAsWholeWord(DATA_ENGINEER_SKILLS[h], TaxText(t, d))}}

\* C8: extract_skills_taxonomy returns exactly the canonical names of the
\* taxonomy phrases that occur in the lowercased "title description" text as
\* a whole word or phrase, every phrase tested on its own; the result is
\* strictly ascending (sorted, no duplicates), empty when title and
\* description are both missing or blank, and for the title "Senior Data
\* Engineer" with the description "Must know Python, SQL, and Apache Spark
\* for our data pipeline" it is Data Pipeline, Python, SQL, Spark.
C8_TaxonomyExactSet ==
    (call.op = "extract_skills_taxonomy" /\ call.done) =>
        /\ Range(call.result) = ExpectedSkills(call.title, call.description)
        /\ \A i \in 1..(Len(call.result) - 1) :
               str_less(call.result[i], call.result[i + 1])
        /\ TaxText(call.title, call.description) = "" => call.result = <<>>
        /\ ( /\ call.title = SomeStr("Senior Data Engineer")
             /\ call.description =
                    SomeStr("Must know Python, SQL, and Apache Spark for our data pipeline") )
           => call.result = <<"Data Pipeline", "Python", "SQL", "Spark">>

\* a phrase inside a longer word (java in javascript) and a phrase whose
\* canonical name is its title-cased form (pub/sub) in one call
C8_Witness ==
    /\ call.op = "extract_skills_taxonomy" /\ call.done
    /\ call.title = SomeStr("javascript pub/sub,")
    /\ call.description = SomeStr("Google Cloud Platform and dbt-core; k8s")
    /\ call.result = <<"GCP", "Kubernetes", "Pub/Sub", "dbt">>

\* C9: taxonomy extraction is idempotent and order-independent: calling it
\* again on the same (A, B) returns the same result, and the result for
\* (A, B) equals the result for (B, A).
C9_IdempotentOrderIndependent ==
    (call.op = "extract_skills_taxonomy" /\ call.done) =>
        /\ call.result = extract_skills_taxonomy(call.title, call.description)
        /\ call.result = extract_skills_taxonomy(call.description, call.title)

-----------------------------------------------------------------------------
(* Bounds and input samples of the batch LLM specification *)

\* extract_skills_llm_batch is called with at most this many rows
MaxLlmRows == 3
\* and with batch_size in 1..MaxLlmBatch
MaxLlmBatch == 3

LlmRow(t, d) == [title |-> t, description |-> d]

LlmRowSamples ==
    {LlmRow(SomeStr("Data Engineer"), SomeStr("Python pipelines")),
     LlmRow(NoneStr, SomeStr(" Kafka on AWS ")),
     LlmRow(SomeStr("  "), SomeStr("SQL"))}

\* the api_key argument and the process environment
Environ(google, gemini) == [GOOGLE_API_KEY |-> google, GEMINI_API_KEY |-> gemini]

KeySamples ==
    {<<NoneStr, Environ(NoneStr, NoneStr)>>,
     <<SomeStr(""), Environ(SomeStr(""), NoneStr)>>,
     <<SomeStr("k-arg"), Environ(SomeStr("k-google"), NoneStr)>>,
     <<NoneStr, Environ(SomeStr(""), SomeStr("k-gemini"))>>}

\* the JSON array a model that reads the prompt returns for one job
AnswerText(row) ==
    IF row.title = SomeStr("Data Engineer") THEN "[\"Python\"]"
    ELSE IF row.title = NoneStr THEN "[\" Kafka\", \"\", null, 0, 7, \"AWS \"]"
    ELSE "[\"SQL\"]"

\* a model reply: what the call does (kind), the text it returns, and how the
\* text was made (shape; bad is the position of an entry that is not an array)
Reply(kind, text, shape, bad) == [kind |-> kind, text |-> text, shape |-> shape, bad |-> bad]

\* the array of the jobs' answers with the entry at position p replaced
WithNonList(answers, p) ==
    "[" \o join(",", [j \in 1..Len(answers) |->
                         IF j = p THEN "\"not-a-list\"" ELSE answers[j]]) \o "]"

\* what a call of the model may do for a batch
Replies(jobs) ==
    LET answers == [j \in 1..Len(jobs) |-> AnswerText(jobs[j])]
        full == "[" \o join(", ", answers) \o "]"
    IN  { Reply("raise", "", "raise", 0),
          Reply("none", "", "none", 0),
          Reply("text", "", "empty", 0),
          Reply("text", "Sorry, I cannot help with that.", "prose", 0),
          Reply("text", "{\"skills\": " \o full \o "}", "object", 0),
          Reply("text", full, "full", 0),
          Reply("text", "[" \o join(", ", SubSeq(answers, 1, Len(answers) - 1)) \o "]",
                "short", 0),
          Reply("text", "[" \o join(", ", Append(answers, "[\"Extra\"]")) \o "]",
                "long", 0),
          Reply("text", FENCE \o "json\n" \o full \o "\n" \o FENCE, "fenced", 0),
          Reply("text", FENCE \o "\n " \o full, "fenced_open", 0) }
        \cup {Reply("text", WithNonList(answers, p), "nonlist", p) : p \in 1..Len(jobs)}

-----------------------------------------------------------------------------
(* The batch LLM specification: extract_skills_llm_batch is called on rows  *)
(* and the model answers each prompt in any of the sampled ways.            *)

InitLlmBatch ==
    /\ now = Ordinal(2026, 3, 1)
    /\ importedAt = now
    /\ CUTOFF_DATE = ComputeCutoff(now)
    /\ ReaderIdle
    /\ \E rows \in DistinctSeqsUpTo(LlmRowSamples, MaxLlmRows),
          size \in 1..MaxLlmBatch, k \in KeySamples :
           call = LlmBatchCall(rows, size, k[1], k[2])

LlmBatchStep ==
    /\ call.pc = "loop" /\ call.i < Len(call.rows)
    /\ \E reply \in Replies(Slice(call.rows, call.i, call.batch_size)) :
           LlmBatchIteration(reply)

NextLlmBatch == LlmBatchStart \/ LlmBatchStep \/ LlmBatchReturn

SpecLlmBatch == InitLlmBatch /\ [][NextLlmBatch]_vars

-----------------------------------------------------------------------------
(* Claims about the batch LLM extractor *)

\* the skills of a row: the trimmed, non-empty strings of its own answer
OwnSkills(row) ==
    IF row.title = SomeStr("Data Engineer") THEN <<"Python">>
    ELSE IF row.title = NoneStr THEN <<"Kafka", "7", "AWS">>
    ELSE <<"SQL">>

\* C10: for any rows, any batch_size >= 1 and any mix of model responses and
\* model-call exceptions across chunks, extract_skills_llm_batch never
\* raises, holds one list per row consumed so far after every chunk, and
\* returns exactly one skill list per input row, the list at position i
\* being empty or the skills of input row i.
C10_OneAlignedListPerRow ==
    call.op = "extract_skills_llm_batch" =>
        /\ call.pc # "raised"
        /\ call.pc = "loop" =>
               Len(call.results) = (IF call.i <= Len(call.rows) THEN call.i
                                    ELSE Len(call.rows))
        /\ call.pc = "returned" =>
               /\ Len(call.results) = Len(call.rows)
               /\ \A i \in 1..Len(call.rows) :
                      call.results[i] \in {<<>>, OwnSkills(call.rows[i])}

\* three rows in chunks of two: the first model call raised, the second
\* returned an array longer than its chunk
C10_Witness ==
    /\ call.op = "extract_skills_llm_batch" /\ call.pc = "returned"
    /\ Len(call.rows) = 3 /\ call.batch_size = 2
    /\ Len(call.replies) = 2 /\ call.replies[1].kind = "raise"
    /\ call.results = <<<<>>, <<>>, OwnSkills(call.rows[3])>>
    /\ call.results[3] # <<>>

\* the number of rows before chunk c
ChunkStart(c) == (c - 1) * call.batch_size

\* the rows of chunk c
ChunkRows(c) == Slice(call.rows, ChunkStart(c), call.batch_size)

\* the result of the record at position k of chunk c
ChunkResult(c, k) == call.results[ChunkStart(c) + k]

\* the shapes of a reply that is a JSON array with an entry for every record
WholeArrayShapes == {"full", "long", "nonlist", "fenced", "fenced_open"}

\* C11: when the model returns a JSON array with at least as many entries
\* as the batch, a record whose positional entry is not itself an array
\* receives an empty skill list, and every other record receives the
\* trimmed, non-empty strings of its own positional array.
C11_NonArrayEntryIsEmpty ==
    call.op = "extract_skills_llm_batch" =>
        \A c \in 1..Len(call.replies) :
            call.replies[c].shape \in WholeArrayShapes =>
                \A k \in 1..Len(ChunkRows(c)) :
                    ChunkResult(c, k) = IF k = call.replies[c].bad THEN <<>>
                                        ELSE OwnSkills(ChunkRows(c)[k])

\* the batch of three records answered [["Python"],"not-a-list",["SQL"]]
C11_Witness ==
    /\ call.op = "extract_skills_llm_batch" /\ call.pc = "returned"
    /\ Len(call.rows) = 3 /\ call.batch_size = 3 /\ Len(call.replies) = 1
    /\ call.replies[1].text = "[[\"Python\"],\"not-a-list\",[\"SQL\"]]"
    /\ call.results = <<<<"Python">>, <<>>, <<"SQL">>>>

\* C12: when the model returns a JSON array with fewer entries than the
\* batch, every record with no positional entry receives an empty skill
\* list, no exception is raised, and the results still hold one list per
\* record.
C12_ShortArrayIsEmpty ==
    call.op = "extract_skills_llm_batch" =>
        \A c \in 1..Len(call.replies) :
            call.replies[c].shape = "short" =>
                /\ call.pc # "raised"
                /\ Len(call.results) >= ChunkStart(c) + Len(ChunkRows(c))
                /\ ChunkResult(c, Len(ChunkRows(c))) = <<>>
                /\ call.pc = "returned" => Len(call.results) = Len(call.rows)

\* a batch of three records answered with an array of two entries
C12_Witness ==
    /\ call.op = "extract_skills_llm_batch" /\ call.pc = "returned"
    /\ Len(call.rows) = 3 /\ call.batch_size = 3 /\ Len(call.replies) = 1
    /\ call.replies[1].shape = "short"
    /\ call.replies[1].text = "[[\"Python\"], [\" Kafka\", \"\", null, 0, 7, \"AWS \"]]"
    /\ call.results[3] = <<>>

\* the shapes of a reply on which the try block raises
RaisingShapes == {"raise", "prose"}

\* range(0, len(rows), batch_size) has this many elements
NumChunks == (Len(call.rows) + call.batch_size - 1) \div call.batch_size

\* C15: if the model call or the response handling raises for one chunk of
\* extract_skills_llm_batch, exactly the records of that chunk receive
\* empty results; every later chunk is still sent to the model with its
\* own records and keeps its own results; the results of earlier chunks
\* are what they were when produced.
C15_FailureStaysInItsChunk ==
    call.op = "extract_skills_llm_batch" =>
        /\ call.pc # "raised"
        /\ Len(call.prompts) = Len(call.replies)
        /\ (call.pc = "returned" /\ TruthyStr(call.api_key)) =>
               Len(call.replies) = NumChunks
        /\ \A c \in 1..Len(call.replies) :
               /\ call.prompts[c] = numbered(ChunkRows(c))
               /\ \A k \in 1..Len(ChunkRows(c)) :
                      /\ call.replies[c].shape \in RaisingShapes =>
                             ChunkResult(c, k) = <<>>
                      /\ call.replies[c].shape = "full" =>
                             ChunkResult(c, k) = OwnSkills(ChunkRows(c)[k])

\* three chunks of one record, the model call raising for the second
C15_Witness ==
    /\ call.op = "extract_skills_llm_batch" /\ call.pc = "returned"
    /\ Len(call.rows) = 3 /\ call.batch_size = 1 /\ Len(call.replies) = 3
    /\ call.replies[1].shape = "full" /\ call.replies[2].shape = "raise"
    /\ call.replies[3].shape = "full"
    /\ call.results[1] # <<>> /\ call.results[2] = <<>> /\ call.results[3] # <<>>

-----------------------------------------------------------------------------
(* Input samples of the single-record LLM specification *)

\* a model reply to the single prompt, with the skills a reader of the text
\* finds in it
SingleReply(kind, text, shape, expected) ==
    [kind |-> kind, text |-> text, shape |-> shape, expected |-> expected]

\* n copies of c
RECURSIVE repeat(_, _)
repeat(c, n) ==
    IF n = 0 THEN ""
    ELSE IF n = 1 THEN c
    ELSE repeat(c, n \div 2) \o repeat(c, n - n \div 2)

SkillArrayText == "[\"Python\", \" SQL \", \"\", null, 0, 7, \"AWS \", true, false]"

SkillArraySkills == <<"Python", "SQL", "7", "AWS", "True">>

SingleReplies ==
    { SingleReply("raise", "", "raise", <<>>),
      SingleReply("none", "", "none", <<>>),
      SingleReply("text", "", "empty", <<>>),
      SingleReply("text", "  \n", "blank", <<>>),
      SingleReply("text", "Sorry, I cannot help with that.", "prose", <<>>),
      SingleReply("text", "[\"Python\", ", "truncated", <<>>),
      SingleReply("text", "{\"skills\": [\"Python\"]}", "object", <<>>),
      SingleReply("text", "42", "number", <<>>),
      SingleReply("text", "\"Python\"", "string", <<>>),
      SingleReply("text", SkillArrayText, "array", SkillArraySkills),
      SingleReply("text", " \n" \o SkillArrayText \o "\n ", "padded", SkillArraySkills),
      SingleReply("text", FENCE \o "json\n" \o SkillArrayText \o "\n" \o FENCE,
                  "fenced", SkillArraySkills),
      SingleReply("text", FENCE \o "\n[\n\"Python\"\n]\n  " \o FENCE \o " \n",
                  "fenced_lines", <<"Python">>),
      SingleReply("text", FENCE \o "json\n" \o SkillArrayText,
                  "fenced_open", SkillArraySkills),
      SingleReply("text", FENCE \o "json\n" \o SkillArrayText \o FENCE, "fenced_glued", <<>>),
      SingleReply("text", FENCE \o "\n" \o SkillArrayText \o "\n" \o FENCE \o "\nDone.",
                  "fenced_then_text", <<>>),
      SingleReply("text", FENCE \o SkillArrayText, "fenced_one_line", <<>>),
      SingleReply("text", FENCE, "fence_only", <<>>),
      SingleReply("text", "[" \o repeat("1", INT_MAX_STR_DIGITS + 1) \o "]", "long_integer",
                  <<>>) }

\* the response texts
ResponseTexts == {r.text : r \in {x \in SingleReplies : x.kind = "text"}}

InitLlmSingle ==
    /\ now = Ordinal(2026, 3, 1)
    /\ importedAt = now
    /\ CUTOFF_DATE = ComputeCutoff(now)
    /\ ReaderIdle
    /\ \/ \E row \in LlmRowSamples, k \in KeySamples, reply \in SingleReplies :
              call = LlmSingleCall(row, k[1], k[2], reply)
       \/ \E raw \in ResponseTexts : call = ParseCall(raw)

NextLlmSingle == LlmSingleStart \/ LlmSingleTry \/ CallParseSkillsJson

SpecLlmSingle == InitLlmSingle /\ [][NextLlmSingle]_vars

\* both extractors
InitLlm == InitLlmBatch \/ InitLlmSingle

NextLlm == NextLlmBatch \/ NextLlmSingle

SpecLlm == InitLlm /\ [][NextLlm]_vars

-----------------------------------------------------------------------------
(* Claims about the single-record LLM extractor and the credential *)

\* no api_key argument and neither variable of the environment set
NoCredential ==
    /\ ~TruthyStr(call.api_key_arg)
    /\ ~TruthyStr(call.environ.GOOGLE_API_KEY)
    /\ ~TruthyStr(call.environ.GEMINI_API_KEY)

\* C13: with no API credential available, extract_skills_llm returns an
\* empty list and extract_skills_llm_batch returns one empty list per input
\* row, in both cases without making any model call and without raising.
C13_NoCredentialNoCall ==
    /\ (call.op = "extract_skills_llm" /\ call.pc # "start" /\ NoCredential) =>
           /\ call.pc = "returned" /\ call.done
           /\ call.result = <<>>
           /\ call.prompts = <<>>
    /\ (call.op = "extract_skills_llm_batch" /\ call.pc # "start" /\ NoCredential) =>
           /\ call.pc = "returned" /\ call.done
           /\ call.results = [k \in 1..Len(call.rows) |-> <<>>]
           /\ call.prompts = <<>> /\ call.replies = <<>>

\* a batch call on three rows returned without a credential
C13_Witness ==
    /\ call.op = "extract_skills_llm_batch" /\ call.pc = "returned" /\ NoCredential
    /\ call.results = <<<<>>, <<>>, <<>>>>

\* the skills a reader finds in a response text
ExpectedOf(raw) == (CHOOSE r \in SingleReplies : r.kind = "text" /\ r.text = raw).expected

\* a list of non-empty trimmed strings
NonEmptyTrimmed(list) == \A k \in 1..Len(list) : list[k] # "" /\ strip(list[k]) = list[k]

\* C14: _parse_skills_json never raises and returns, for every response
\* text, a list of non-empty trimmed strings: the skills of the array in
\* the text, a fenced block being read without its first line and without
\* a closing fence on its last line, and the empty list for unparseable
\* JSON, an empty response or JSON that is not an array; extract_skills_llm
\* returns the same list for the response of the model.
C14_ParseNeverRaises ==
    /\ (call.op = "_parse_skills_json" /\ call.done) =>
           /\ call.pc = "returned"
           /\ NonEmptyTrimmed(call.result)
           /\ call.result = ExpectedOf(call.raw)
    /\ (call.op = "extract_skills_llm" /\ call.done) =>
           /\ call.pc = "returned"
           /\ NonEmptyTrimmed(call.result)
           /\ call.prompts # <<>> => call.result = call.reply.expected

-----------------------------------------------------------------------------
(* run_ingestion.py, scripts/load_gcs_to_bigquery.py and the pipeline runs *)

SOURCES == <<"huggingface", "kaggle_data_engineer", "kaggle_linkedin", "kaggle_linkedin_skills">>

\* the items of the dict, in insertion order
SOURCE_TO_GCS_AND_TABLE ==
    << [slug |-> "huggingface", gcs_suffix |-> "huggingface_data_jobs",
        bq_table |-> "raw_huggingface_data_jobs"],
       [slug |-> "kaggle_data_engineer", gcs_suffix |-> "kaggle_data_engineer_2023",
        bq_table |-> "raw_kaggle_data_engineer_2023"],
       [slug |-> "kaggle_linkedin", gcs_suffix |-> "kaggle_linkedin_postings",
        bq_table |-> "raw_kaggle_linkedin_postings"],
       [slug |-> "kaggle_linkedin_skills", gcs_suffix |-> "kaggle_linkedin_jobs_skills_2024",
        bq_table |-> "raw_kaggle_linkedin_jobs_skills_2024"] >>

\* os.environ.get(name, default)
environ_get(x, default) == IF x.some THEN x.v ELSE default

\* s.strip(c) for a character c
RECURSIVE strip_char(_, _)
strip_char(s, c) ==
    IF s = "" THEN ""
    ELSE IF Head(s) = c THEN strip_char(Tail(s), c)
    ELSE IF Char(s, Len(s)) = c THEN strip_char(SubSeq(s, 1, Len(s) - 1), c)
    ELSE s

\* config.GCS_BUCKET and config.GCS_PREFIX, read from the environment at import
CONFIG_GCS_BUCKET(environ) == environ_get(environ.GCS_BUCKET, "")
CONFIG_GCS_PREFIX(environ) == environ_get(environ.GCS_PREFIX, "raw")

\* a get_gcs_base_url that does not look at the bucket
get_gcs_base_url_unchecked(environ) ==
    [raised |-> FALSE, exc |-> "",
     v |-> "gs://" \o strip_char(CONFIG_GCS_BUCKET(environ), "/") \o "/"
           \o strip_char(CONFIG_GCS_PREFIX(environ), "/")]

\* config.get_gcs_base_url
get_gcs_base_url(environ) ==
    IF CONFIG_GCS_BUCKET(environ) = "" THEN [raised |-> TRUE, exc |-> "ValueError", v |-> ""]
    ELSE [raised |-> FALSE, exc |-> "",
          v |-> "gs://" \o strip_char(CONFIG_GCS_BUCKET(environ), "/") \o "/"
                \o strip_char(CONFIG_GCS_PREFIX(environ), "/")]

\* the checks of run_ingestion.main on the environment
run_ingestion_config_ok(environ) ==
    /\ TruthyStr(environ.GCS_BUCKET)
    /\ TruthyStr(or_else(environ.GOOGLE_CLOUD_PROJECT, environ.GCP_PROJECT))

\* bucket and project of load_gcs_to_bigquery.main
load_bucket(environ) == strip(environ_get(environ.GCS_BUCKET, ""))
load_project(environ) ==
    IF TruthyStr(environ.GOOGLE_CLOUD_PROJECT) THEN environ.GOOGLE_CLOUD_PROJECT.v
    ELSE strip(environ_get(environ.GCP_PROJECT, ""))

\* the exit status of a process that has not exited, and of one that has
NoExit == [some |-> FALSE, v |-> 0]
Exit(n) == [some |-> TRUE, v |-> n]

\* a run of a command-line program (op) or of one pipeline: the sources it
\* is to run, those it started and completed, in order, and those whose
\* records a reader has begun to read
CliCall(op, src, environ) ==
    [op |-> op, done |-> FALSE, pc |-> "start", source |-> src, environ |-> environ,
     to_run |-> <<>>, started |-> <<>>, completed |-> <<>>, read |-> <<>>, exit |-> NoExit]

\* run_ingestion.main up to the loop
RunIngestionConfig ==
    /\ call.op = "run_ingestion" /\ call.pc = "start"
    /\ call' = IF run_ingestion_config_ok(call.environ)
               THEN [call EXCEPT !.pc = "loop",
                                 !.to_run = IF call.source = "all" THEN SOURCES
                                            ELSE <<call.source>>]
               ELSE [call EXCEPT !.pc = "exited", !.done = TRUE, !.exit = Exit(1)]
    /\ UNCHANGED <<clockVars, readerVars>>

\* an iteration that goes on with the next source after a failure
RunIngestionPipeline_isolated(outcome) ==
    /\ call.op = "run_ingestion" /\ call.pc = "running"
    /\ \E name \in {call.started[Len(call.started)]} :
           call' = [call EXCEPT !.pc = "loop",
                                !.read = IF outcome = "raised_before_read" THEN call.read
                                         ELSE Append(call.read, name),
                                !.completed = IF outcome = "completed"
                                              THEN Append(call.completed, name)
                                              ELSE call.completed]
    /\ UNCHANGED <<clockVars, readerVars>>

\* the loop starts the next source: runners[name]() runs up to pipeline.run
RunIngestionStart ==
    /\ call.op = "run_ingestion" /\ call.pc = "loop"
    /\ Len(call.started) < Len(call.to_run)
    /\ \E name \in {call.to_run[Len(call.started) + 1]} :
           call' = IF get_gcs_base_url(call.environ).raised
                   THEN [call EXCEPT !.started = Append(call.started, name),
                                     !.pc = "exited", !.done = TRUE, !.exit = Exit(1)]
                   ELSE [call EXCEPT !.started = Append(call.started, name),
                                     !.pc = "running"]
    /\ UNCHANGED <<clockVars, readerVars>>

\* pipeline.run of the started source ends with outcome; the rest of the
\* iteration
RunIngestionPipeline(outcome) ==
    /\ call.op = "run_ingestion" /\ call.pc = "running"
    /\ \E name \in {call.started[Len(call.started)]} :
           call' = [call EXCEPT !.pc = IF outcome = "completed" THEN "loop" ELSE "exited",
                                !.done = outcome # "completed",
                                !.exit = IF outcome = "completed" THEN NoExit ELSE Exit(1),
                                !.read = IF outcome = "raised_before_read" THEN call.read
                                         ELSE Append(call.read, name),
                                !.completed = IF outcome = "completed"
                                              THEN Append(call.completed, name)
                                              ELSE call.completed]
    /\ UNCHANGED <<clockVars, readerVars>>

\* return 0 after the loop
RunIngestionReturn ==
    /\ call.op = "run_ingestion" /\ call.pc = "loop"
    /\ Len(call.started) = Len(call.to_run)
    /\ call' = [call EXCEPT !.pc = "exited", !.done = TRUE, !.exit = Exit(0)]
    /\ UNCHANGED <<clockVars, readerVars>>

\* load_gcs_to_bigquery.main up to the loop
LoadConfig ==
    /\ call.op = "load_gcs_to_bigquery" /\ call.pc = "start"
    /\ call' = IF load_bucket(call.environ) = "" \/ load_project(call.environ) = ""
               THEN [call EXCEPT !.pc = "exited", !.done = TRUE, !.exit = Exit(1)]
               ELSE [call EXCEPT !.pc = "loop",
                                 !.to_run =
                                     IF call.source = "all"
                                     THEN [k \in 1..Len(SOURCE_TO_GCS_AND_TABLE) |->
                                              SOURCE_TO_GCS_AND_TABLE[k].slug]
                                     ELSE <<call.source>>]
    /\ UNCHANGED <<clockVars, readerVars>>

\* one iteration of the loop, load_source ending with outcome
LoadSource(outcome) ==
    /\ call.op = "load_gcs_to_bigquery" /\ call.pc = "loop"
    /\ Len(call.started) < Len(call.to_run)
    /\ \E name \in {call.to_run[Len(call.started) + 1]} :
           call' = [call EXCEPT !.started = Append(call.started, name),
                                !.pc = IF outcome = "raised" THEN "exited" ELSE "loop",
                                !.done = outcome = "raised",
                                !.exit = IF outcome = "raised" THEN Exit(1) ELSE NoExit,
                                !.read = IF outcome = "loaded" THEN Append(call.read, name)
                                         ELSE call.read,
                                !.completed = IF outcome = "raised" THEN call.completed
                                              ELSE Append(call.completed, name)]
    /\ UNCHANGED <<clockVars, readerVars>>

\* return 0 after the loop
LoadReturn ==
    /\ call.op = "load_gcs_to_bigquery" /\ call.pc = "loop"
    /\ Len(call.started) = Len(call.to_run)
    /\ call' = [call EXCEPT !.pc = "exited", !.done = TRUE, !.exit = Exit(0)]
    /\ UNCHANGED <<clockVars, readerVars>>

\* run() of one pipeline module, called on its own: up to pipeline.run
PipelineRunStart ==
    /\ call.op = "run" /\ call.pc = "start"
    /\ call' = IF get_gcs_base_url(call.environ).raised
               THEN [call EXCEPT !.started = <<call.source>>, !.pc = "raised",
                                 !.done = TRUE]
               ELSE [call EXCEPT !.started = <<call.source>>, !.pc = "running"]
    /\ UNCHANGED <<clockVars, readerVars>>

\* pipeline.run ends with outcome
PipelineRunEnd(outcome) ==
    /\ call.op = "run" /\ call.pc = "running"
    /\ call' = [call EXCEPT !.pc = IF outcome = "completed" THEN "returned" ELSE "raised",
                            !.done = TRUE,
                            !.read = IF outcome = "raised_before_read" THEN call.read
                                     ELSE <<call.source>>,
                            !.completed = IF outcome = "completed" THEN <<call.source>>
                                          ELSE <<>>]
    /\ UNCHANGED <<clockVars, readerVars>>

-----------------------------------------------------------------------------
(* Input samples of the command-line specification *)

CliEnviron(bucket, google, gcp) ==
    [GCS_BUCKET |-> bucket, GCS_PREFIX |-> NoneStr, GOOGLE_CLOUD_PROJECT |-> google,
     GCP_PROJECT |-> gcp]

BucketSamples == {NoneStr, SomeStr(""), SomeStr("horizon-raw/")}

ProjectSamples == {NoneStr, SomeStr(""), SomeStr("horizon")}

CliEnvirons ==
    {CliEnviron(b, g, p) : b \in BucketSamples, g \in ProjectSamples, p \in ProjectSamples}

\* the choices of --source
SourceChoices == {"all"} \cup {SOURCES[k] : k \in 1..Len(SOURCES)}

PipelineOutcomes == {"completed", "raised_before_read", "raised_after_read"}

LoadOutcomes == {"loaded", "no_files", "raised"}

InitCli ==
    /\ now = Ordinal(2026, 3, 1)
    /\ importedAt = now
    /\ CUTOFF_DATE = ComputeCutoff(now)
    /\ ReaderIdle
    /\ \/ \E op \in {"run_ingestion", "load_gcs_to_bigquery"}, src \in SourceChoices,
             environ \in CliEnvirons :
              call = CliCall(op, src, environ)
       \/ \E k \in 1..Len(SOURCES), environ \in CliEnvirons :
              call = CliCall("run", SOURCES[k], environ)

RunIngestionStep == \E outcome \in PipelineOutcomes : RunIngestionPipeline(outcome)

LoadStep == \E outcome \in LoadOutcomes : LoadSource(outcome)

PipelineRunStep == \E outcome \in PipelineOutcomes : PipelineRunEnd(outcome)

NextCli ==
    \/ RunIngestionConfig \/ RunIngestionStart \/ RunIngestionStep \/ RunIngestionReturn
    \/ LoadConfig \/ LoadStep \/ LoadReturn
    \/ PipelineRunStart \/ PipelineRunStep

SpecCli == InitCli /\ [][NextCli]_vars

-----------------------------------------------------------------------------
(* Claims about the command-line programs *)

\* s is the sequence of the first Len(s) elements of t
IsPrefix(s, t) == Len(s) <= Len(t) /\ s = SubSeq(t, 1, Len(s))

\* the sources --source selects
Selected ==
    IF call.source = "all"
    THEN <<"huggingface", "kaggle_data_engineer", "kaggle_linkedin", "kaggle_linkedin_skills">>
    ELSE <<call.source>>

\* C16: in the ingestion CLI the selected sources ("all": huggingface,
\* kaggle_data_engineer, kaggle_linkedin, kaggle_linkedin_skills) are
\* started one at a time in that order, a source only after every earlier
\* one completed; on the first source that raises no later source is
\* started and the exit status is 1; the exit status is 0 iff every
\* selected source completed.
C16_AllInOrderStopAtFirstFailure ==
    call.op = "run_ingestion" =>
        /\ IsPrefix(call.started, Selected)
        /\ IsPrefix(call.completed, call.started)
        /\ Len(call.started) <= Len(call.completed) + 1
        /\ Len(call.started) > Len(call.completed) =>
               \/ call.pc = "running"
               \/ call.done /\ call.exit = Exit(1)
        /\ call.exit.some <=> call.done
        /\ call.done => (call.exit = Exit(0) <=> call.completed = Selected)
        /\ call.done => call.exit \in {Exit(0), Exit(1)}

\* "all": the third source raised after the first two completed
C16_Witness ==
    /\ call.op = "run_ingestion" /\ call.source = "all" /\ call.done
    /\ call.completed = <<"huggingface", "kaggle_data_engineer">>
    /\ call.started = <<"huggingface", "kaggle_data_engineer", "kaggle_linkedin">>
    /\ call.exit = Exit(1)

\* GCS_BUCKET unset or empty
BucketMissing == ~call.environ.GCS_BUCKET.some \/ call.environ.GCS_BUCKET.v = ""

\* neither GOOGLE_CLOUD_PROJECT nor GCP_PROJECT set
ProjectMissing == ~call.environ.GOOGLE_CLOUD_PROJECT.some /\ ~call.environ.GCP_PROJECT.some

\* C17: if GCS_BUCKET is unset or empty, or neither GOOGLE_CLOUD_PROJECT
\* nor GCP_PROJECT is set, the ingestion CLI and the warehouse-load CLI
\* return exit status 1 without starting any pipeline or load; and a
\* pipeline run raises on an empty bucket setting before reading any
\* source record.
C17_ConfigErrorsBeforeWork ==
    /\ ( /\ call.op \in {"run_ingestion", "load_gcs_to_bigquery"}
         /\ call.pc # "start"
         /\ BucketMissing \/ ProjectMissing ) =>
           /\ call.done /\ call.exit = Exit(1)
           /\ call.started = <<>> /\ call.read = <<>>
    /\ (call.op = "run" /\ call.pc # "start" /\ BucketMissing) =>
           /\ call.pc = "raised" /\ call.done
           /\ call.read = <<>> /\ call.completed = <<>>

\* the ingestion CLI has exited on --source all with a project and no bucket
C17_Witness ==
    /\ call.op = "run_ingestion" /\ call.source = "all" /\ call.done
    /\ ~call.environ.GCS_BUCKET.some /\ call.environ.GOOGLE_CLOUD_PROJECT = SomeStr("horizon")
    /\ call.exit = Exit(1) /\ call.started = <<>>

-----------------------------------------------------------------------------
(* Claims about the batches and the rows of the readers *)

\* what the reader's _row_to_canonical returns for record number k
Normalized(k) ==
    IF source = "huggingface" THEN hf_row_to_canonical(dataset[k], Stamp(k - 1))
    ELSE IF source = "linkedin_skills"
    THEN li_row_to_canonical(dataset[k], UsedColMap, Stamp(k - 1))
    ELSE de_row_to_canonical(dataset[k], UsedColMap, Stamp(k - 1))

\* the accepted rows among the first n records, in input order
RECURSIVE AcceptedRows(_)
AcceptedRows(n) ==
    IF n = 0 THEN <<>>
    ELSE AcceptedRows(n - 1)
             \o (IF Normalized(n).out.some THEN <<to_load_dict(Normalized(n).out.v)>>
                 ELSE <<>>)

\* C18: for any input and any batch_size >= 1, every yielded batch except
\* possibly the last contains exactly batch_size rows, the last contains
\* between 1 and batch_size rows, no empty batch is yielded, there are no
\* more batches than records, and the concatenation of all batches equals
\* the accepted rows in input order, each exactly once.
C18_BatchShape ==
    source # "none" =>
        /\ \A k \in 1..Len(yielded) :
               /\ Len(yielded[k]) >= 1 /\ Len(yielded[k]) <= batch_size
               /\ (k < Len(yielded) \/ pc # "done") => Len(yielded[k]) = batch_size
        /\ Len(batch) < batch_size
        /\ Len(yielded) <= pos /\ pos <= Len(dataset)
        /\ Flatten(yielded) \o batch = AcceptedRows(pos)
        /\ pc = "done" => (batch = <<>> /\ pos = Len(dataset))

\* three accepted rows were yielded as a batch of two and a last batch of one
C18_Witness ==
    /\ pc = "done" /\ batch_size = 2 /\ Len(yielded) = 2
    /\ Len(yielded[1]) = 2 /\ Len(yielded[2]) = 1
    /\ Len(origin) = 3

\* the records of the restart specification: three of each source
RestartHFRows ==
    {r \in HFRows : get(r, "job_title") \in
        {CellStr("Senior Data Engineer"), CellStr("Nurse"), CellStr("Data Analyst")}}

RestartLIRows ==
    {r \in LIRows : get(r, "job_title") \in
        {CellStr("Data Engineer"), CellStr("Nurse"), CellStr(" Data Analyst ")}}

InitRestart ==
    /\ now \in ReaderStartDays
    /\ importedAt = now
    /\ CUTOFF_DATE = ComputeCutoff(now)
    /\ call = NoCall
    /\ \E size \in 1..MaxBatch :
          \/ \E rows \in DistinctSeqsUpTo(RestartHFRows, MaxRows) :
                 ReaderCalled("huggingface", HFHeader, rows, size)
          \/ \E rows \in DistinctSeqsUpTo(RestartLIRows, MaxRows) :
                 ReaderCalled("linkedin_skills", LIHeader, rows, size)
          \/ \E rows \in DistinctSeqsUpTo(DERows, MaxRows) :
                 ReaderCalled("data_engineer", DEHeader, rows, size)

NextRestart == NextReaders \/ ReaderInvokeAgain

SpecRestart == InitRestart /\ [][NextRestart]_vars

\* the batches without their ingested_at
WithoutIngestedAt(batches) ==
    [k \in 1..Len(batches) |->
        [j \in 1..Len(batches[k]) |-> [batches[k][j] EXCEPT !.ingested_at = NoneStr]]]

ReaderSourceId ==
    IF source = "huggingface" THEN HF_SOURCE_ID
    ELSE IF source = "linkedin_skills" THEN LI_SOURCE_ID ELSE DE_SOURCE_ID

ReaderSourceName ==
    IF source = "huggingface" THEN HF_SOURCE_NAME
    ELSE IF source = "linkedin_skills" THEN LI_SOURCE_NAME ELSE DE_SOURCE_NAME

OptionalTextFields ==
    {"job_title", "job_description", "company_name", "location", "job_url", "salary_info"}

\* C20: in every row emitted by a reader, source_id and source_name are the
\* reader's non-empty constants and every other text field is a non-empty
\* string or null; no emitted row carries an empty string in an optional
\* field, also when the source value is blank or whitespace-only.
C20_NoEmptyOptionalText ==
    source # "none" =>
        \A r \in Range(Flatten(yielded) \o batch) :
            /\ r.source_id = ReaderSourceId /\ r.source_id # ""
            /\ r.source_name = ReaderSourceName /\ r.source_name # ""
            /\ \A f \in OptionalTextFields : r[f] # SomeStr("")

-----------------------------------------------------------------------------
(* Claims about the posted date of a record *)

\* the columns the reader's column map gives to posted_date
PostedDateColumns ==
    IF source = "huggingface" THEN <<"job_posted_date">>
    ELSE LET cm == UsedColMap
         IN  SelectSeq([k \in 1..Len(cm) |-> IF cm[k].canon = "posted_date" THEN cm[k].col
                                             ELSE ""],
                       LAMBDA c : c # "")

\* the record's posted-date value is missing or cannot be parsed
PostedDateUnusable(row) ==
    /\ PostedDateColumns # <<>>
    /\ IF source = "huggingface" THEN ~hf_parse_date(get(row, PostedDateColumns[1])).some
       ELSE ~li_parse_date(get(row, PostedDateColumns[1])).some

\* C21: in the Hugging Face and the LinkedIn-skills reader a record whose
\* posted-date value is missing or unparseable resolves to a missing
\* posted_date and is rejected by the recency filter: no row is emitted
\* for it.
C21_UnusableDateIsRejected ==
    source \in {"huggingface", "linkedin_skills"} =>
        \A i \in 1..pos :
            PostedDateUnusable(dataset[i]) =>
                /\ ~ResolvedPostedDate(dataset[i]).some
                /\ i \notin Range(origin)

-----------------------------------------------------------------------------
(* ingestion/schema.py: a canonical row serialized and constructed again *)

\* the validation of a posted_date given as text (Optional[date], line 34):
\* YYYY-MM-DD of a real calendar day
validate_date(s) ==
    IF ~( /\ Len(s) = 10
          /\ all_digits(SubSeq(s, 1, 4)) /\ Char(s, 5) = "-"
          /\ all_digits(SubSeq(s, 6, 7)) /\ Char(s, 8) = "-"
          /\ all_digits(SubSeq(s, 9, 10)) )
    THEN Raised("ValidationError")
    ELSE LET y == int_of(SubSeq(s, 1, 4))
             mo == int_of(SubSeq(s, 6, 7))
             d == int_of(SubSeq(s, 9, 10))
         IN  IF y < 1 \/ mo < 1 \/ mo > 12 THEN Raised("ValidationError")
             ELSE IF d < 1 \/ d > DaysInMonth(y, mo) THEN Raised("ValidationError")
             ELSE Returned(Ordinal(y, mo, d))

\* the validation of an ingested_at given as text (datetime, line 37):
\* YYYY-MM-DDTHH:MM:SS
validate_datetime(s) ==
    IF Len(s) # 19 \/ Char(s, 11) # "T" THEN Raised("ValidationError")
    ELSE LET day == validate_date(SubSeq(s, 1, 10))
             t == SubSeq(s, 12, 19)
         IN  IF day.raised \/ ~valid_clock(t) THEN Raised("ValidationError")
             ELSE Returned(DateTime(day.v, 3600 * int_of(SubSeq(t, 1, 2))
                                              + 60 * int_of(SubSeq(t, 4, 5))
                                              + int_of(SubSeq(t, 7, 8))))

\* RawJobRow(**d) on a dict of to_load_dict: the text fields and the skills
\* are taken as they are, the two temporal fields are validated from text
RawJobRow_from_dict(d) ==
    LET posted == IF d.posted_date.some THEN validate_date(d.posted_date.v)
                  ELSE Returned(0)
        at == validate_datetime(d.ingested_at)
    IN  IF posted.raised \/ at.raised THEN Raised("ValidationError")
        ELSE Returned([d EXCEPT !.posted_date = IF d.posted_date.some
                                               THEN SomeDate(posted.v) ELSE NoneDate,
                                !.ingested_at = at.v])

SchemaCall(r) ==
    [op |-> "to_load_dict", row |-> r, done |-> FALSE, dict |-> to_load_dict(NoRow.v),
     reloaded |-> Raised("")]

\* row.to_load_dict()
CallToLoadDict ==
    /\ call.op = "to_load_dict"
    /\ ~call.done
    /\ call' = [call EXCEPT !.op = "RawJobRow", !.dict = to_load_dict(call.row)]
    /\ UNCHANGED <<clockVars, readerVars>>

\* RawJobRow(**d) on the dict of the row
CallRawJobRow ==
    /\ call.op = "RawJobRow"
    /\ ~call.done
    /\ call' = [call EXCEPT !.done = TRUE, !.reloaded = RawJobRow_from_dict(call.dict)]
    /\ UNCHANGED <<clockVars, readerVars>>

SchemaDates == {Ordinal(2023, 4, 1), Ordinal(2024, 2, 29), Ordinal(2025, 12, 31)}
SchemaInstants ==
    {DateTime(Ordinal(2026, 3, 1), 0), DateTime(Ordinal(2026, 3, 1), StartSecond),
     DateTime(Ordinal(2026, 12, 31), 86399)}
SchemaTexts == {NoneStr, SomeStr(""), SomeStr(" Data Engineer ")}
SchemaSkills == {NoneList, SomeList(<<>>), SomeList(<<"sql", " python ">>)}

\* canonical rows, as the constructor accepts them
SchemaRows ==
    { RawJobRow(HF_SOURCE_ID, HF_SOURCE_NAME, t, NoneStr, c, NoneStr, p, NoneStr, sk,
                NoneStr, at) :
        t \in SchemaTexts, c \in {NoneStr, SomeStr("Acme")},
        p \in {NoneDate} \cup {SomeDate(d) : d \in SchemaDates},
        sk \in SchemaSkills, at \in SchemaInstants }

InitSchema ==
    /\ now = Ordinal(2026, 3, 1)
    /\ importedAt = now
    /\ CUTOFF_DATE = ComputeCutoff(now)
    /\ ReaderIdle
    /\ \E r \in SchemaRows : call = SchemaCall(r)

NextSchema == CallToLoadDict \/ CallRawJobRow

SpecSchema == InitSchema /\ [][NextSchema]_vars

\* C22: a canonical row serialized with to_load_dict and constructed again
\* from the resulting dict has the field values it had: the posted date and
\* the ingestion instant come back as the same day and instant from their
\* text form, and a missing field stays missing
C22_RoundTrip ==
    (call.op = "RawJobRow" /\ call.done) =>
        /\ ~call.reloaded.raised
        /\ call.reloaded.v = call.row
        /\ call.dict.ingested_at
              = isoformat(call.row.ingested_at.d) \o "T"
                    \o isoformat_time(call.row.ingested_at.sec)
        /\ call.dict.posted_date.some = call.row.posted_date.some

C22_Witness ==
    /\ call.op = "RawJobRow" /\ call.done
    /\ call.row.posted_date = SomeDate(Ordinal(2024, 2, 29))
    /\ call.row.ingested_at.sec = 86399
    /\ ~call.row.job_title.some
    /\ call.dict.posted_date = SomeStr("2024-02-29")
    /\ call.dict.ingested_at = "2026-12-31T23:59:59"
    /\ call.reloaded.v = call.row

-----------------------------------------------------------------------------
(* Where a pipeline stages its files and where the loader reads them:       *)
(* ingestion/pipelines/common.py and scripts/load_gcs_to_bigquery.py        *)

\* s.rstrip(c) for a character c
RECURSIVE rstrip_char(_, _)
rstrip_char(s, c) ==
    IF s = "" THEN ""
    ELSE IF Char(s, Len(s)) = c THEN rstrip_char(SubSeq(s, 1, Len(s) - 1), c)
    ELSE s

\* DATASET_NAME of the pipeline module of a source
DATASET_NAME(slug) ==
    CASE slug = "huggingface" -> "huggingface_data_jobs"
      [] slug = "kaggle_data_engineer" -> "kaggle_data_engineer_2023"
      [] slug = "kaggle_linkedin" -> "kaggle_linkedin_postings"
      [] slug = "kaggle_linkedin_skills" -> "kaggle_linkedin_jobs_skills_2024"

\* bucket_url of run_pipeline: f"{bucket_base.rstrip('/')}/{dataset_name}"
pipeline_bucket_url(bucket_base, dataset_name) ==
    rstrip_char(bucket_base, "/") \o "/" \o dataset_name

\* SOURCE_TO_GCS_AND_TABLE[slug]
gcs_and_table(slug) ==
    Once({SOURCE_TO_GCS_AND_TABLE[k] : k \in {j \in 1..Len(SOURCE_TO_GCS_AND_TABLE) :
                                                  SOURCE_TO_GCS_AND_TABLE[j].slug = slug}})

\* prefix of load_gcs_to_bigquery.main: f"raw/{gcs_suffix}/"
load_prefix(gcs_suffix) == "raw/" \o gcs_suffix \o "/"

\* the directory load_source globs under: f"gs://{bucket}/{prefix.rstrip('/')}"
load_source_root(bucket, pfx) == "gs://" \o bucket \o "/" \o rstrip_char(pfx, "/")

\* path of load_source
load_source_path(bucket, pfx) == load_source_root(bucket, pfx) \o "/**/*.parquet"

\* an ingestion of one source followed by a load of that source
StagingCall(src, environ) ==
    [op |-> "stage", pc |-> "start", done |-> FALSE, source |-> src, environ |-> environ,
     bucket_url |-> NoneStr, load_root |-> NoneStr, load_path |-> NoneStr,
     bq_table |-> NoneStr]

\* run_pipeline up to its end
StagingRunPipeline ==
    /\ call.op = "stage" /\ call.pc = "start"
    /\ \E base \in {get_gcs_base_url(call.environ)} :
           call' = IF base.raised
                   THEN [call EXCEPT !.pc = "raised", !.done = TRUE]
                   ELSE [call EXCEPT !.pc = "ingested",
                                     !.bucket_url =
                                         SomeStr(pipeline_bucket_url(base.v,
                                                     DATASET_NAME(call.source)))]
    /\ UNCHANGED <<clockVars, readerVars>>

\* load_gcs_to_bigquery.main --source <the source> after the ingestion
StagingLoad ==
    /\ call.op = "stage" /\ call.pc = "ingested"
    /\ \E bucket \in {load_bucket(call.environ)}, entry \in {gcs_and_table(call.source)} :
           call' = IF bucket = "" \/ load_project(call.environ) = ""
                   THEN [call EXCEPT !.pc = "exited", !.done = TRUE]
                   ELSE [call EXCEPT
                           !.pc = "loaded", !.done = TRUE,
                           !.load_root = SomeStr(load_source_root(bucket,
                                                     load_prefix(entry.gcs_suffix))),
                           !.load_path = SomeStr(load_source_path(bucket,
                                                     load_prefix(entry.gcs_suffix))),
                           !.bq_table = SomeStr(entry.bq_table)]
    /\ UNCHANGED <<clockVars, readerVars>>

StagingBuckets == {NoneStr, SomeStr("horizon-raw"), SomeStr("horizon-raw/")}
StagingPrefixes == {NoneStr, SomeStr(""), SomeStr("raw"), SomeStr("raw/"), SomeStr("staging")}

StagingEnvirons ==
    {[CliEnviron(b, SomeStr("horizon"), NoneStr) EXCEPT !.GCS_PREFIX = p] :
        b \in StagingBuckets, p \in StagingPrefixes}

InitStaging ==
    /\ now = Ordinal(2026, 3, 1)
    /\ importedAt = now
    /\ CUTOFF_DATE = ComputeCutoff(now)
    /\ ReaderIdle
    /\ \E k \in 1..Len(SOURCES), environ \in StagingEnvirons :
           call = StagingCall(SOURCES[k], environ)

NextStaging == StagingRunPipeline \/ StagingLoad

SpecStaging == InitStaging /\ [][NextStaging]_vars

\* C23: whatever the bucket and the prefix of the configuration, the loader
\* of a source reads the staged files from the location the pipeline of that
\* source wrote them to
C23_LoaderReadsWherePipelineWrote ==
    (call.op = "stage" /\ call.pc = "loaded") =>
        /\ call.load_root = call.bucket_url
        /\ call.bq_table = SomeStr("raw_" \o DATASET_NAME(call.source))

-----------------------------------------------------------------------------
(* The Data Engineer normalizer on one record of the dataset's own header *)

DeFieldsCall(row) ==
    [op |-> "de_row_to_canonical", row |-> row, done |-> FALSE, out |-> NoRow]

\* _row_to_canonical(row, col_map) with the col_map of the header
CallDeRowToCanonical ==
    /\ call.op = "de_row_to_canonical"
    /\ ~call.done
    /\ call' = [call EXCEPT !.done = TRUE,
                            !.out = de_row_to_canonical(call.row,
                                        de_build_col_map(DEHeader), Stamp(0)).out]
    /\ UNCHANGED <<clockVars, readerVars>>

DeTextCells(t) == {CellNaN, CellStr(" "), CellStr(t)}

\* records of the dataset: every part of the location and of the salary
\* present, blank or missing
DeFieldRows ==
    { MakeRow(DEHeader, <<CellStr("Data Engineer"), CellNaN, CellStr("Acme"), city, state,
                          country, amount, currency>>) :
        city \in DeTextCells(" Austin"), state \in DeTextCells("TX"),
        country \in DeTextCells("US "),
        amount \in {CellNaN, CellStr(""), CellNum("120000.0")},
        currency \in DeTextCells("USD") }

InitDeFields ==
    /\ now = Ordinal(2026, 3, 1)
    /\ importedAt = now
    /\ CUTOFF_DATE = ComputeCutoff(now)
    /\ ReaderIdle
    /\ \E row \in DeFieldRows : call = DeFieldsCall(row)

NextDeFields == CallDeRowToCanonical

SpecDeFields == InitDeFields /\ [][NextDeFields]_vars

\* two optional parts put together: the one that is present, or both with
\* the separator between them, or neither
ClaimJoined(a, sep, b) ==
    IF ~a.some THEN b
    ELSE IF ~b.some THEN a
    ELSE SomeStr(a.v \o sep \o b.v)

\* the trimmed text of the cell of a record under a column, missing when the
\* cell is missing or blank
DePart(row, c) == CellText(get(row, c))

-----------------------------------------------------------------------------
(* _skills_to_list of the LinkedIn-skills normalizer on one raw value *)

SkillsCall(val) == [op |-> "_skills_to_list", val |-> val, done |-> FALSE, result |-> NoneList]

CallSkillsToList ==
    /\ call.op = "_skills_to_list"
    /\ ~call.done
    /\ call' = [call EXCEPT !.done = TRUE, !.result = li_skills_to_list(call.val)]
    /\ UNCHANGED <<clockVars, readerVars>>

SkillWords == {"", "sql", " etl "}
SkillSeparators == {";", "|", ",", " "}

\* raw values of a skills column: up to three words with a separator or a
\* space between them, lists, and missing values
SkillValues ==
    {CellNone, CellNaN, CellList(<<>>), CellList(<<"sql", " etl ">>), CellNum("7.0")}
        \cup {CellStr(a \o d \o b \o e \o c) :
                a \in SkillWords, b \in SkillWords, c \in SkillWords,
                d \in SkillSeparators, e \in SkillSeparators}

InitLiSkills ==
    /\ now = Ordinal(2026, 3, 1)
    /\ importedAt = now
    /\ CUTOFF_DATE = ComputeCutoff(now)
    /\ ReaderIdle
    /\ \E val \in SkillValues : call = SkillsCall(val)

NextLiSkills == CallSkillsToList

SpecLiSkills == InitLiSkills /\ [][NextLiSkills]_vars

\* the delimiter of highest precedence among ';', '|', ',' that occurs in s
ClaimDelimiter(s) ==
    IF contains(";", s) THEN ";" ELSE IF contains("|", s) THEN "|" ELSE ","

\* C25: a raw skills value that is a list is kept element by element; a
\* string is split on the delimiter of highest precedence among ';', '|',
\* ',' that occurs in it, its parts trimmed and the empty ones dropped; a
\* string with no delimiter is one skill; a missing or blank value is missing
C25_SplitOnHighestPrecedence ==
    (call.op = "_skills_to_list" /\ call.done) =>
        \E val \in {call.val} :
            call.result =
                IF val.k = "list" THEN SomeList(val.l)
                ELSE IF val.k # "str" \/ strip(val.s) = "" THEN NoneList
                ELSE IF contains(";", val.s) \/ contains("|", val.s) \/ contains(",", val.s)
                THEN SomeList(strip_nonempty(split(val.s, ClaimDelimiter(val.s))))
                ELSE SomeList(<<strip(val.s)>>)

-----------------------------------------------------------------------------
(* Claims about the Data Engineer reader *)

\* the title and the description the Data Engineer normalizer resolves
DeResolvedText(row) == de_field_loop(row, de_build_col_map(columns), 1, DeBlank)

\* C26: a record of the Data Engineer reader is emitted without the domain
\* filter only when neither its title nor its description is available; a
\* record with a title or a description is emitted only if it passes the
\* domain filter, as in every other reader
C26_OverrideOnlyWithoutText ==
    source = "data_engineer" =>
        \A i \in Range(origin) :
            \E t \in {DeResolvedText(dataset[i])} :
                (t.title.some \/ t.desc.some) =>
                    data_domain_only(t.title, t.desc, NoneList, NoneStr)

-----------------------------------------------------------------------------
(* The Kaggle readers before their loop: download gating, credentials and   *)
(* the choice of the CSV file (ingestion/sources/kaggle_download.py and the *)
(* head of the two stream_kaggle_* generators)                              *)

\* the largest number of CSV files in a directory listing
MaxCsvFiles == 2

\* a credentials check that copies the token over a key that is set
ensure_kaggle_credentials_overwrite(environ) ==
    LET env == IF TruthyStr(environ.KAGGLE_API_TOKEN)
               THEN [environ EXCEPT !.KAGGLE_KEY = environ.KAGGLE_API_TOKEN]
               ELSE environ
    IN  [raised |-> ~TruthyStr(env.KAGGLE_USERNAME) \/ ~TruthyStr(env.KAGGLE_KEY),
         exc |-> IF ~TruthyStr(env.KAGGLE_USERNAME) \/ ~TruthyStr(env.KAGGLE_KEY)
                 THEN "ValueError" ELSE "",
         environ |-> env]

\* ensure_kaggle_credentials: the environment it leaves and whether it raises
ensure_kaggle_credentials(environ) ==
    LET env == IF ~TruthyStr(environ.KAGGLE_KEY) /\ TruthyStr(environ.KAGGLE_API_TOKEN)
               THEN [environ EXCEPT !.KAGGLE_KEY = environ.KAGGLE_API_TOKEN]
               ELSE environ
    IN  [raised |-> ~TruthyStr(env.KAGGLE_USERNAME) \/ ~TruthyStr(env.KAGGLE_KEY),
         exc |-> IF ~TruthyStr(env.KAGGLE_USERNAME) \/ ~TruthyStr(env.KAGGLE_KEY)
                 THEN "ValueError" ELSE "",
         environ |-> env]

\* a CSV file of a directory: its path and its size
CsvFile(path, size) == [path |-> path, size |-> size]

NoPath == [some |-> FALSE, v |-> CsvFile("", 0)]
SomePath(f) == [some |-> TRUE, v |-> f]

\* _find_csvs: sorted(..., key=st_size, reverse=True) of the files in the
\* order rglob finds them; the sort is stable
RECURSIVE find_csvs(_)
find_csvs(files) ==
    IF files = <<>> THEN <<>>
    ELSE LET k == CHOOSE k \in 1..Len(files) :
                      /\ \A j \in 1..Len(files) : files[j].size <= files[k].size
                      /\ \A j \in 1..(k - 1) : files[j].size < files[k].size
         IN  <<files[k]>> \o find_csvs(SubSeq(files, 1, k - 1)
                                           \o SubSeq(files, k + 1, Len(files)))

\* _find_best_csv of the Data Engineer reader
find_best_csv(files) ==
    LET csvs == find_csvs(files) IN IF csvs # <<>> THEN SomePath(csvs[1]) ELSE NoPath

\* _find_first_csv of the LinkedIn-skills reader
find_first_csv(files) == IF files # <<>> THEN SomePath(files[1]) ELSE NoPath

\* a Kaggle reader called: its arguments, the environment, whether its
\* dataset directory exists, the CSV files under it in the order rglob finds
\* them, and the CSV files of the dataset's archive
KaggleCall(src, force_download, environ, exists, files, archive) ==
    [op |-> "stream_kaggle", source |-> src, force_download |-> force_download,
     environ |-> environ, environ_before |-> environ, existed |-> exists,
     exists |-> exists, files |-> files, archive |-> archive, pc |-> "start",
     done |-> FALSE, download_called |-> FALSE, api_calls |-> 0, exc |-> "",
     csv_path |-> NoPath, yielded |-> 0]

\* if force_download or not dest.exists(): download_dataset(DATASET)
KaggleGate ==
    /\ call.op = "stream_kaggle" /\ call.pc = "start"
    /\ call' = IF call.force_download \/ ~call.exists
               THEN [call EXCEPT !.pc = "download", !.download_called = TRUE]
               ELSE [call EXCEPT !.pc = "find"]
    /\ UNCHANGED <<clockVars, readerVars>>

\* download_dataset: the credentials check, then makedirs and the API calls,
\* which end with outcome
KaggleDownloadDataset(outcome) ==
    /\ call.op = "stream_kaggle" /\ call.pc = "download"
    /\ \E checked \in {ensure_kaggle_credentials(call.environ)} :
           call' = IF checked.raised
                   THEN [call EXCEPT !.environ = checked.environ, !.pc = "raised",
                                     !.done = TRUE, !.exc = checked.exc]
                   ELSE IF outcome = "raised"
                   THEN [call EXCEPT !.environ = checked.environ, !.exists = TRUE,
                                     !.api_calls = 1, !.pc = "raised", !.done = TRUE,
                                     !.exc = "ApiException"]
                   ELSE [call EXCEPT !.environ = checked.environ, !.exists = TRUE,
                                     !.api_calls = 1, !.pc = "find",
                                     !.files = call.archive
                                         \o SelectSeq(call.files,
                                                LAMBDA f : f \notin Range(call.archive))]
    /\ UNCHANGED <<clockVars, readerVars>>

\* csv_path = _find_best_csv(dest) or _find_first_csv(dest), and the raise
\* when there is none
KaggleFindCsv ==
    /\ call.op = "stream_kaggle" /\ call.pc = "find"
    /\ \E found \in {IF call.source = "data_engineer" THEN find_best_csv(call.files)
                     ELSE find_first_csv(call.files)} :
           call' = IF ~found.some
                   THEN [call EXCEPT !.pc = "raised", !.done = TRUE,
                                     !.exc = "FileNotFoundError"]
                   ELSE [call EXCEPT !.pc = "read", !.csv_path = found]
    /\ UNCHANGED <<clockVars, readerVars>>

\* the loop over pd.read_csv(csv_path, ...), taken as one step that yields
KaggleReadCsv ==
    /\ call.op = "stream_kaggle" /\ call.pc = "read"
    /\ call' = [call EXCEPT !.pc = "done", !.done = TRUE, !.yielded = 1]
    /\ UNCHANGED <<clockVars, readerVars>>

KaggleFiles == {CsvFile("meta.csv", 10), CsvFile("jobs.csv", 500), CsvFile("skills.csv", 500)}

KaggleListings == DistinctSeqsUpTo(KaggleFiles, MaxCsvFiles)

KaggleEnvirons ==
    {[KAGGLE_USERNAME |-> u, KAGGLE_KEY |-> k, KAGGLE_API_TOKEN |-> t] :
        u \in {NoneStr, SomeStr(""), SomeStr("user")},
        k \in {NoneStr, SomeStr(""), SomeStr("key")},
        t \in {NoneStr, SomeStr(""), SomeStr("token")}}

InitKaggle ==
    /\ now = Ordinal(2026, 3, 1)
    /\ importedAt = now
    /\ CUTOFF_DATE = ComputeCutoff(now)
    /\ ReaderIdle
    /\ \E src \in {"data_engineer", "linkedin_skills"}, force_download \in BOOLEAN,
          environ \in KaggleEnvirons, exists \in BOOLEAN, files \in KaggleListings,
          archive \in {<<>>, <<CsvFile("meta.csv", 10), CsvFile("jobs.csv", 500)>>} :
           /\ ~exists => files = <<>>
           /\ call = KaggleCall(src, force_download, environ, exists, files, archive)

KaggleDownloadStep == \E outcome \in {"downloaded", "raised"} : KaggleDownloadDataset(outcome)

NextKaggle == KaggleGate \/ KaggleDownloadStep \/ KaggleFindCsv \/ KaggleReadCsv

SpecKaggle == InitKaggle /\ [][NextKaggle]_vars

\* C27: in every Kaggle CSV reader the file that is read is a largest one of
\* the CSV files the directory search finds, and with no CSV file the reader
\* raises FileNotFoundError and yields no batch
C27_LargestCsvIsRead ==
    call.op = "stream_kaggle" =>
        /\ call.csv_path.some =>
               /\ call.csv_path.v \in Range(call.files)
               /\ \A f \in Range(call.files) : f.size <= call.csv_path.v.size
        /\ (call.pc \in {"read", "done"}) => call.csv_path.some
        /\ (call.pc = "raised" /\ call.exc = "FileNotFoundError") =>
               call.files = <<>> /\ call.yielded = 0

\* a variable counts as missing when it is not set or set to the empty text
KaggleMissing(x) == ~x.some \/ x.v = ""

\* C28: a Kaggle reader calls the download exactly when force_download is
\* set or the dataset directory does not exist; the download raises
\* ValueError, with no archive API call made, exactly when KAGGLE_USERNAME is
\* missing or KAGGLE_KEY and KAGGLE_API_TOKEN are both missing;
\* KAGGLE_API_TOKEN is copied into KAGGLE_KEY only when KAGGLE_KEY is
\* missing, and a KAGGLE_KEY that is set is left as it is
C28_DownloadGating ==
    (call.op = "stream_kaggle" /\ call.pc # "start") =>
        \E before \in {call.environ_before} :
            /\ call.download_called <=> (call.force_download \/ ~call.existed)
            /\ (call.download_called /\ call.pc # "download") =>
                   /\ (call.exc = "ValueError")
                          <=> \/ KaggleMissing(before.KAGGLE_USERNAME)
                              \/ /\ KaggleMissing(before.KAGGLE_KEY)
                                 /\ KaggleMissing(before.KAGGLE_API_TOKEN)
                   /\ call.exc = "ValueError" => call.api_calls = 0
                   /\ call.exc # "ValueError" => call.api_calls = 1
                   /\ call.environ.KAGGLE_KEY =
                          IF KaggleMissing(before.KAGGLE_KEY)
                             /\ ~KaggleMissing(before.KAGGLE_API_TOKEN)
                          THEN before.KAGGLE_API_TOKEN ELSE before.KAGGLE_KEY
                   /\ call.environ.KAGGLE_USERNAME = before.KAGGLE_USERNAME
                   /\ call.environ.KAGGLE_API_TOKEN = before.KAGGLE_API_TOKEN
            /\ ~call.download_called =>
                   call.api_calls = 0 /\ call.environ = before

C28_Witness ==
    /\ call.op = "stream_kaggle" /\ call.pc = "done"
    /\ call.download_called /\ ~call.force_download /\ ~call.existed
    /\ call.environ_before.KAGGLE_KEY = NoneStr
    /\ call.environ_before.KAGGLE_API_TOKEN = SomeStr("token")
    /\ call.environ.KAGGLE_KEY = SomeStr("token")
    /\ call.api_calls = 1

\* the credentials check raises before any API call
C28_WitnessRaise ==
    /\ call.op = "stream_kaggle" /\ call.pc = "raised" /\ call.exc = "ValueError"
    /\ call.force_download /\ call.existed
    /\ call.environ_before.KAGGLE_KEY = SomeStr("key")
    /\ call.environ_before.KAGGLE_USERNAME = NoneStr

C29_WitnessNone ==
    /\ source = "data_engineer" /\ pc = "done"
    /\ CUTOFF_DATE > Ordinal(2023, 4, 1)
    /\ Len(dataset) = MaxRows
    /\ yielded = <<>>

-----------------------------------------------------------------------------
(* A response that does not cover its chunk *)

\* the shapes of a reply that is a JSON array shorter than the chunk, or a
\* JSON value that is no array
PartialShapes == {"short", "object"}

\* C30: when the response for a chunk of extract_skills_llm_batch is a JSON
\* array with fewer entries than the chunk, or no array at all, every record
\* of the chunk receives an empty result, the records whose position in the
\* array holds a valid array of skills included
C30_PartialResponseIsDiscarded ==
    call.op = "extract_skills_llm_batch" =>
        \A c \in 1..Len(call.replies) :
            call.replies[c].shape \in PartialShapes =>
                /\ Len(call.results) >= ChunkStart(c) + Len(ChunkRows(c))
                /\ \A k \in 1..Len(ChunkRows(c)) : ChunkResult(c, k) = <<>>

\* a batch of three records answered with the valid arrays of the first two
C30_Witness ==
    /\ call.op = "extract_skills_llm_batch" /\ call.pc = "returned"
    /\ Len(call.rows) = 3 /\ call.batch_size = 3 /\ Len(call.replies) = 1
    /\ call.replies[1].text = "[[\"Python\"], [\"SQL\"]]"
    /\ OwnSkills(call.rows[1]) = <<"Python">>
    /\ call.results = <<<<>>, <<>>, <<>>>>

=============================================================================
